---- MODULE Spec2Model ----
(***************************************************************************)
(* redsumer-rs: consumer-group protocol of the Consumer over one Redis     *)
(* stream and one consumer group.                                          *)
(*                                                                         *)
(* Client side: redsumer-rs/src/redsumer/consumer.rs (Consumer) and        *)
(* redsumer-rs/src/core/streams/consumer.rs (the command wrappers).        *)
(* Server side: the Redis commands the wrappers issue (XADD, XGROUP        *)
(* CREATE, XREADGROUP, XAUTOCLAIM, XPENDING, XACK), modelled by their      *)
(* documented semantics on one stream key and one group.                   *)
(*                                                                         *)
(* Entry identifiers "<ms>-<seq>" are assigned by the server in increasing *)
(* order; the n-th entry of the stream is written n, and "0-0" is 0.       *)
(***************************************************************************)
EXTENDS Integers, Sequences, FiniteSets, TLC

\* ---------------------------------------------------------------- bounds
MaxEntries == 2
MaxIdle == 1

\* ------------------------------------------------------------- constants
BEGINNING_OF_TIME_ID == 0
AttemptsFactor == 10

Instances == {"i1", "i2"}
Names == {"a", "b"}
Ids == 1..MaxEntries

\* The values the options of a ConsumerConfig are drawn from.
NewCounts == {0, 1}
Blocks == {0, 1}
PendingCounts == {0, 2}
ClaimCounts == {0, 1}
MinIdleTimes == {1}
InitialIds == {0}
Outcomes == {"ok", "lost_request", "lost_reply"}

VARIABLES
    stream,                     \* number of entries appended to the stream key
    group,                      \* [exists, last_delivered] of the consumer group
    pel,                        \* group pending-entries list: id -> [owner, idle]
    config,                     \* instance -> ConsumerConfig (NoConfig before Consumer::new)
    latest_pending_message_id,  \* instance -> cursor of ReadPendingMessagesOptions
    next_id_to_claim,           \* instance -> cursor of ClaimMessagesOptions
    pc,                         \* instance -> position inside consume
    phases,                     \* instance -> outcome of each phase of the running consume
    reply,                      \* what the step just taken returned to its caller
    acked,                      \* the ids for which an ack returned true
    newSeen,                    \* the ids that a consume returned tagged New
    replay,                     \* instance -> consume replies since an undisturbed construction
    entries,                    \* id -> the field/value pairs the server stores for the entry
    producer,                   \* whether Producer::new has returned a Producer
    produced,                   \* id -> the payload of the produce call that returned the id
    started,                    \* instance -> the cursors its running consume started with
    replayed,                   \* instance -> the ids returned Pending since the cursor was 0-0
    wait                        \* the loop of a consumer that waits for its stream

vars == <<stream, group, pel, config, latest_pending_message_id, next_id_to_claim,
          pc, phases, reply, acked, newSeen, replay, entries, producer,
          produced, started, replayed, wait>>

server == <<stream, group, pel>>
cursors == <<latest_pending_message_id, next_id_to_claim>>

\* ------------------------------------------------------------- data types
NoOwner == "-"
NoPending == [owner |-> NoOwner, idle |-> 0]

NoConfig == [consumer_name |-> NoOwner, new_count |-> 0, block |-> 0,
             pending_count |-> 0, claim_count |-> 0, min_idle_time |-> 0]

ConsumerConfig == [consumer_name : Names, new_count : NewCounts, block : Blocks,
                   pending_count : PendingCounts, claim_count : ClaimCounts,
                   min_idle_time : MinIdleTimes]

\* The configurations each instance may be constructed with: instance i1 is
\* consumer "a" with any options, instance i2 is its peer "b" with all three
\* phases enabled. The block time only matters when new messages are read.
ConfigsOf(i) ==
    IF i = "i1"
    THEN {cfg \in ConsumerConfig :
            cfg.consumer_name = "a" /\ (cfg.new_count = 0 => cfg.block = 0)}
    ELSE {cfg \in ConsumerConfig :
            /\ cfg.consumer_name = "b"
            /\ cfg.new_count > 0 /\ cfg.block > 0
            /\ cfg.pending_count > 0 /\ cfg.claim_count > 0}

NoWait == [pc |-> "idle"]
NoCursors == [latest_pending_message_id |-> BEGINNING_OF_TIME_ID,
              next_id_to_claim |-> BEGINNING_OF_TIME_ID]
NoPhases == [N |-> "notrun", P |-> "notrun", C |-> "notrun"]
NoReply == [op |-> "none"]
ReplayOff == [on |-> FALSE, start |-> {}, replies |-> <<>>]

Min(a, b) == IF a < b THEN a ELSE b

\* The ids of S as a sequence in increasing order.
RECURSIVE SortedSeq(_)
SortedSeq(S) ==
    IF S = {} THEN <<>>
    ELSE LET m == CHOOSE x \in S : \A y \in S : x <= y
         IN <<m>> \o SortedSeq(S \ {m})

Range(s) == {s[k] : k \in 1..Len(s)}
Take(s, n) == SubSeq(s, 1, Min(n, Len(s)))

Created(i) == config[i] # NoConfig
NameOf(i) == config[i].consumer_name
PelOf(p, name) == {id \in Ids : p[id].owner = name}
Pending(p) == {id \in Ids : p[id].owner # NoOwner}

\* ------------------------------------------------------- the Redis server
\* XADD key * ...: appends one entry and returns its identifier.
\* An entry holds field/value pairs in the order of the XADD that wrote it.
NoEntry == <<>>

\* The payloads of a producer: fields are strings, values are of any type
\* with ToRedisArgs; a map has one value per field, a list of items is any
\* sequence of (field, value) pairs.
MaxItems == 2
Fields == {"f", "g"}
Values == {[type |-> "str", text |-> "1"], [type |-> "int", text |-> "1"],
           [type |-> "str", text |-> "2"]}
Maps == UNION {[F -> Values] : F \in SUBSET Fields}
Items == UNION {[1..n -> [field : Fields, value : Values]] : n \in 0..MaxItems}
NoPayload == [kind |-> "none", map |-> <<>>, items |-> <<>>]
MapPayload(map) == [kind |-> "map", map |-> map, items |-> <<>>]
ItemsPayload(items) == [kind |-> "items", map |-> <<>>, items |-> items]
TestItems == <<[field |-> "f", value |-> [type |-> "str", text |-> "1"]]>>

\* ToRedisArgs of a value: the bytes of its text.
WriteRedisArgs(v) == v.text

\* The arguments of XADD for a list of items, pair after pair.
ItemArgs(items) ==
    [k \in 1..Len(items) |-> [field |-> items[k].field, value |-> WriteRedisArgs(items[k].value)]]

\* The arguments of XADD for a map, one pair per key.
RECURSIVE MapArgs(_)
MapArgs(map) ==
    IF DOMAIN map = {} THEN <<>>
    ELSE LET f == CHOOSE x \in DOMAIN map : TRUE
         IN <<[field |-> f, value |-> WriteRedisArgs(map[f])]>>
            \o MapArgs([x \in DOMAIN map \ {f} |-> map[x]])

\* StreamId.map of an entry read back: a HashMap filled pair after pair, so
\* the last pair of a field is the one kept.
StreamIdMap(pairs) ==
    [f \in {pairs[k].field : k \in 1..Len(pairs)} |->
        LET last == CHOOSE k \in 1..Len(pairs) :
                       /\ pairs[k].field = f
                       /\ \A j \in k + 1..Len(pairs) : pairs[j].field # f
        IN [type |-> "bulk-string", text |-> pairs[last].value]]

XAdd(st) == [stream |-> st + 1, id |-> st + 1]

\* XGROUP CREATE key group since_id (no MKSTREAM).
XGroupCreate(st, g, since_id) ==
    IF st = 0 THEN [group |-> g, result |-> "ERR"]
    ELSE IF g.exists THEN [group |-> g, result |-> "BUSYGROUP"]
    ELSE [group |-> [exists |-> TRUE, last_delivered |-> since_id], result |-> "OK"]

\* XREADGROUP GROUP group consumer COUNT count STREAMS key > : the entries
\* after the group's last-delivered id, which become pending for consumer.
XReadGroupNew(st, g, p, consumer, count) ==
    LET lo == g.last_delivered + 1
        hi == Min(st, g.last_delivered + count)
        ids == [k \in 1..(IF hi >= lo THEN hi - lo + 1 ELSE 0) |-> lo + k - 1]
    IN [ids |-> ids,
        group |-> IF ids = <<>> THEN g ELSE [g EXCEPT !.last_delivered = hi],
        pel |-> [id \in Ids |-> IF id \in Range(ids)
                                THEN [owner |-> consumer, idle |-> 0]
                                ELSE p[id]]]

\* XREADGROUP from id serving the pending list from its beginning.
XReadGroupFrom_WholeList(p, consumer, id, count) ==
    LET ids == Take(SortedSeq(PelOf(p, consumer)), count)
    IN [ids |-> ids,
        pel |-> [x \in Ids |-> IF x \in Range(ids)
                               THEN [owner |-> consumer, idle |-> 0]
                               ELSE p[x]]]

\* XREADGROUP from id serving the entry id itself as well.
XReadGroupFrom_Inclusive(p, consumer, id, count) ==
    LET ids == Take(SortedSeq({x \in PelOf(p, consumer) : x >= id}), count)
    IN [ids |-> ids,
        pel |-> [x \in Ids |-> IF x \in Range(ids)
                               THEN [owner |-> consumer, idle |-> 0]
                               ELSE p[x]]]

\* XREADGROUP GROUP group consumer COUNT count STREAMS key id : the entries of
\* the consumer's own pending list with identifier greater than id; each
\* entry served this way is delivered again (its idle time restarts).
XReadGroupFrom(p, consumer, id, count) ==
    LET ids == Take(SortedSeq({x \in PelOf(p, consumer) : x > id}), count)
    IN [ids |-> ids,
        pel |-> [x \in Ids |-> IF x \in Range(ids)
                               THEN [owner |-> consumer, idle |-> 0]
                               ELSE p[x]]]

\* The scan loop of XAUTOCLAIM over the group's pending entries scan[k..]:
\* it stops when the attempts or the count are used up or the list ends, and
\* the cursor it returns is the first entry it did not examine, 0-0 at the end.
RECURSIVE AutoClaimScan(_, _, _, _, _, _, _)
AutoClaimScan(p, scan, k, attempts, count, min_idle_time, claimed) ==
    IF attempts = 0 \/ count = 0 \/ k > Len(scan)
    THEN [claimed |-> claimed,
          next_stream_id |-> IF k > Len(scan) THEN BEGINNING_OF_TIME_ID ELSE scan[k]]
    ELSE IF p[scan[k]].idle < min_idle_time
    THEN AutoClaimScan(p, scan, k + 1, attempts - 1, count, min_idle_time, claimed)
    ELSE AutoClaimScan(p, scan, k + 1, attempts - 1, count - 1, min_idle_time,
                       Append(claimed, scan[k]))

\* XAUTOCLAIM key group consumer min_idle_time start COUNT count.
XAutoClaim(p, consumer, min_idle_time, start, count) ==
    LET r == AutoClaimScan(p, SortedSeq({x \in Pending(p) : x >= start}), 1,
                           count * AttemptsFactor, count, min_idle_time, <<>>)
    IN [claimed |-> r.claimed,
        next_stream_id |-> r.next_stream_id,
        pel |-> [x \in Ids |-> IF x \in Range(r.claimed)
                               THEN [owner |-> consumer, idle |-> 0]
                               ELSE p[x]]]

\* XPENDING answering without its consumer argument.
XPendingConsumerCount_AnyConsumer(p, start, end, count, consumer) ==
    Take(SortedSeq({x \in Pending(p) : start <= x /\ x <= end}), count)

\* XPENDING key group start end count consumer: the ids in [start, end] that
\* are pending for consumer.
XPendingConsumerCount(p, start, end, count, consumer) ==
    Take(SortedSeq({x \in PelOf(p, consumer) : start <= x /\ x <= end}), count)

\* XACK key group id: removes id from the group's pending list, whoever owns
\* it, and returns the number of entries removed.
XAck(p, id) ==
    [removed |-> IF p[id].owner # NoOwner THEN 1 ELSE 0,
     pel |-> [p EXCEPT ![id] = NoPending]]

\* XPENDING key group start end count: the ids in [start, end] that are
\* pending for any consumer of the group.
XPendingCount(p, start, end, count) ==
    Take(SortedSeq({x \in Pending(p) : start <= x /\ x <= end}), count)

\* XCLAIM key group consumer min_idle_time id [id ...]: the pending entries
\* among ids that have been idle for min_idle_time pass to consumer.
XClaim(p, consumer, min_idle_time, ids) ==
    [x \in Ids |-> IF x \in Range(ids) /\ p[x].owner # NoOwner /\ p[x].idle >= min_idle_time
                   THEN [owner |-> consumer, idle |-> 0]
                   ELSE p[x]]

\* ---------------------------------------------- core/streams/consumer.rs
\* Each wrapper is given the outcome of the round trip: "ok", or a transport
\* failure before ("lost_request") or after ("lost_reply") the server ran the
\* command. A wrapper returns [result, ...] with result "Ok" or "Err" and the
\* server state it leaves.

Executed(outcome) == outcome # "lost_request"

\* The stream key of the configuration and a key that is not it.
StreamKey == "s"
StreamKeys == {"s", "t"}

\* A StreamReadReply: one StreamKey record [key, ids] per stream of the reply;
\* the reply to a read of one stream, and the nil reply of a read that found
\* nothing new.
StreamReadReply(key, ids) == [keys |-> <<[key |-> key, ids |-> ids]>>]
NilReply == [keys |-> <<>>]

\* The loop of unwrap_by_key over the streams of the reply: ids is extended
\* with the entries of each stream named key, the others are skipped with a
\* warning.
RECURSIVE ExtendByKey(_, _, _)
ExtendByKey(keys, key, ids) ==
    IF keys = <<>> THEN ids
    ELSE ExtendByKey(Tail(keys), key,
                     IF Head(keys).key = key THEN ids \o Head(keys).ids ELSE ids)

\* unwrap_by_key extending ids with the entries of every stream of the reply.
RECURSIVE unwrap_by_key_NoFilter(_, _)
unwrap_by_key_NoFilter(reply_, key) ==
    IF reply_.keys = <<>> THEN <<>>
    ELSE Head(reply_.keys).ids \o unwrap_by_key_NoFilter([keys |-> Tail(reply_.keys)], key)

unwrap_by_key(reply_, key) == ExtendByKey(reply_.keys, key, <<>>)

\* XADD key * field value [field value ...]: the server appends the entry
\* under the next id, and refuses a command without a pair.
XAddItems(st, en, args) ==
    IF args = <<>> THEN [stream |-> st, entries |-> en, result |-> "ERR", id |-> BEGINNING_OF_TIME_ID]
    ELSE [stream |-> XAdd(st).stream, entries |-> [en EXCEPT ![XAdd(st).id] = args],
          result |-> "OK", id |-> XAdd(st).id]

\* A RedisError is [kind, message]; the error of a round trip that failed in
\* the transport.
NoError == [kind |-> "-", message |-> "-"]
TransportError == [kind |-> "IoError", message |-> "connection lost"]

\* xadd with the id "*": Ok(id) of the server, or its error as it is.
xadd(st, en, id_arg, args, outcome) ==
    LET r == XAddItems(st, en, args)
        ok == outcome = "ok" /\ r.result = "OK"
    IN [requests |-> <<[command |-> "XADD", id |-> id_arg, args |-> args]>>,
        stream |-> IF Executed(outcome) THEN r.stream ELSE st,
        entries |-> IF Executed(outcome) THEN r.entries ELSE en,
        result |-> IF ok THEN "Ok" ELSE "Err",
        id |-> IF ok THEN r.id ELSE BEGINNING_OF_TIME_ID,
        error |-> IF outcome # "ok" THEN TransportError
                  ELSE IF r.result = "OK" THEN NoError
                  ELSE [kind |-> "ResponseError", message |-> r.result]]

\* produce_from_map sending the request again when it failed.
produce_from_map_Retry(st, en, map, outcome) ==
    LET first == xadd(st, en, "*", MapArgs(map), outcome)
        second == xadd(first.stream, first.entries, "*", MapArgs(map), "ok")
    IN IF first.result = "Ok" THEN first
       ELSE [second EXCEPT !.requests = first.requests \o second.requests]

\* produce_from_map: c.xadd_map(key, "*", map).
produce_from_map(st, en, map, outcome) == xadd(st, en, "*", MapArgs(map), outcome)

\* produce_from_items keeping one pair per field, the first one.
produce_from_items_FirstWins(st, en, items, outcome) ==
    xadd(st, en, "*",
         ItemArgs(SelectSeq(items, LAMBDA it :
                     it = items[CHOOSE k \in 1..Len(items) : items[k].field = it.field])),
         outcome)

\* produce_from_items: c.xadd(key, "*", items).
produce_from_items(st, en, items, outcome) == xadd(st, en, "*", ItemArgs(items), outcome)

\* Commands::ping of the client: PING, Ok(reply) or the error of the
\* round trip.
PingCommand(outcome) ==
    IF outcome = "ok" THEN [result |-> "Ok", error |-> NoError]
    ELSE [result |-> "Err", error |-> TransportError]

\* ping taking every connection for verified.
ping_AlwaysOk(outcome) == [result |-> "Ok", error |-> NoError]

\* ping: check_connection sends PING.
ping(outcome) ==
    IF outcome = "ok" THEN [result |-> "Ok", error |-> NoError]
    ELSE [result |-> "Err",
          error |-> [kind |-> "ClientError",
                     message |-> "The connection to the server could not be verified"]]

\* verify_if_stream_exists returning the error of the EXISTS command itself.
verify_if_stream_exists_Propagate(st, outcome) ==
    IF outcome = "ok"
    THEN IF st > 0 THEN [result |-> "Ok", error |-> NoError]
         ELSE [result |-> "Err",
               error |-> [kind |-> "ClientError", message |-> "Stream does not exist"]]
    ELSE [result |-> "Err", error |-> TransportError]

\* verify_if_stream_exists taking every reply of EXISTS for Ok(true).
verify_if_stream_exists_AnyReply(st, outcome) ==
    IF outcome = "ok" THEN [result |-> "Ok", error |-> NoError]
    ELSE [result |-> "Err",
          error |-> [kind |-> "ClientError", message |-> "Error verifying if stream exists"]]

\* verify_if_stream_exists: EXISTS key; the stream exists once an entry was
\* appended to it.
verify_if_stream_exists(st, outcome) ==
    IF outcome = "ok"
    THEN IF st > 0 THEN [result |-> "Ok", error |-> NoError]
         ELSE [result |-> "Err",
               error |-> [kind |-> "ClientError", message |-> "Stream does not exist"]]
    ELSE [result |-> "Err",
          error |-> [kind |-> "ClientError", message |-> "Error verifying if stream exists"]]

\* create_consumer_group answering every error with Ok(false).
create_consumer_group_SwallowErrors(st, g, since_id, outcome) ==
    LET r == XGroupCreate(st, g, since_id)
    IN [created |-> IF outcome = "ok" /\ r.result = "OK" THEN "true" ELSE "false",
        error |-> NoError,
        group |-> IF Executed(outcome) THEN r.group ELSE g]

\* create_consumer_group treating BUSYGROUP like any other error.
create_consumer_group_BusyIsError(st, g, since_id, outcome) ==
    LET r == XGroupCreate(st, g, since_id)
    IN [created |-> IF outcome = "ok" /\ r.result = "OK" THEN "true" ELSE "-",
        error |-> IF outcome # "ok" THEN TransportError
                  ELSE IF r.result = "OK" THEN NoError
                  ELSE [kind |-> "ResponseError", message |-> r.result],
        group |-> IF Executed(outcome) THEN r.group ELSE g]

\* create_consumer_group: XGROUP CREATE key group since_id; Ok(true) when the
\* group was created, Ok(false) when the error of the server says BUSYGROUP.
create_consumer_group(st, g, since_id, outcome) ==
    LET r == XGroupCreate(st, g, since_id)
    IN [created |-> IF outcome # "ok" THEN "-"
                    ELSE IF r.result = "OK" THEN "true"
                    ELSE IF r.result = "BUSYGROUP" THEN "false"
                    ELSE "-",
        error |-> IF outcome # "ok" THEN TransportError
                  ELSE IF r.result \in {"OK", "BUSYGROUP"} THEN NoError
                  ELSE [kind |-> "ResponseError", message |-> r.result],
        group |-> IF Executed(outcome) THEN r.group ELSE g]

\* read_new_messages reading the stream without .group(group, consumer).
read_new_messages_NoGroup(st, g, p, consumer, count, outcome) ==
    IF count > 0
    THEN [result |-> IF outcome = "ok" THEN "Ok" ELSE "Err",
          contacted |-> TRUE,
          messages |-> IF outcome = "ok" THEN [k \in 1..Min(st, count) |-> k] ELSE <<>>,
          group |-> g,
          pel |-> p]
    ELSE [result |-> "Ok", contacted |-> FALSE, messages |-> <<>>, group |-> g, pel |-> p]

\* read_new_messages with the two arms of the count test exchanged.
read_new_messages_CountInverted(st, g, p, consumer, count, outcome) ==
    IF count > 0
    THEN [result |-> "Ok", contacted |-> FALSE, messages |-> <<>>, group |-> g, pel |-> p]
    ELSE LET r == XReadGroupNew(st, g, p, consumer, count)
         IN [result |-> IF outcome = "ok" THEN "Ok" ELSE "Err",
             contacted |-> TRUE,
             messages |-> IF outcome = "ok" THEN r.ids ELSE <<>>,
             group |-> IF Executed(outcome) THEN r.group ELSE g,
             pel |-> IF Executed(outcome) THEN r.pel ELSE p]

read_new_messages(st, g, p, consumer, count, outcome) ==
    IF count > 0
    THEN LET r == XReadGroupNew(st, g, p, consumer, count)
             read == IF r.ids = <<>> THEN NilReply ELSE StreamReadReply(StreamKey, r.ids)
         IN [result |-> IF outcome = "ok" THEN "Ok" ELSE "Err",
             contacted |-> TRUE,
             messages |-> IF outcome = "ok" THEN unwrap_by_key(read, StreamKey) ELSE <<>>,
             group |-> IF Executed(outcome) THEN r.group ELSE g,
             pel |-> IF Executed(outcome) THEN r.pel ELSE p]
    ELSE [result |-> "Ok", contacted |-> FALSE, messages |-> <<>>, group |-> g, pel |-> p]

\* read_pending_messages without the count.gt(&0) test.
read_pending_messages_NoCountCheck(p, consumer, latest, count, outcome) ==
    LET r == XReadGroupFrom(p, consumer, latest, count)
    IN [result |-> IF outcome = "ok" THEN "Ok" ELSE "Err",
        contacted |-> TRUE,
        messages |-> IF outcome = "ok" THEN r.ids ELSE <<>>,
        latest_pending_message_id |->
            IF outcome = "ok" /\ r.ids # <<>> THEN r.ids[Len(r.ids)]
            ELSE BEGINNING_OF_TIME_ID,
        pel |-> IF Executed(outcome) THEN r.pel ELSE p]

\* read_pending_messages returning BEGINNING_OF_TIME_ID whatever it read.
read_pending_messages_ResetAlways(p, consumer, latest, count, outcome) ==
    IF count > 0
    THEN LET r == XReadGroupFrom(p, consumer, latest, count)
         IN [result |-> IF outcome = "ok" THEN "Ok" ELSE "Err",
             contacted |-> TRUE,
             messages |-> IF outcome = "ok" THEN r.ids ELSE <<>>,
             latest_pending_message_id |-> BEGINNING_OF_TIME_ID,
             pel |-> IF Executed(outcome) THEN r.pel ELSE p]
    ELSE [result |-> "Ok", contacted |-> FALSE, messages |-> <<>>,
          latest_pending_message_id |-> BEGINNING_OF_TIME_ID, pel |-> p]

\* read_pending_messages keeping the cursor it was given when nothing is read.
read_pending_messages_KeepCursor(p, consumer, latest, count, outcome) ==
    IF count > 0
    THEN LET r == XReadGroupFrom(p, consumer, latest, count)
         IN [result |-> IF outcome = "ok" THEN "Ok" ELSE "Err",
             contacted |-> TRUE,
             messages |-> IF outcome = "ok" THEN r.ids ELSE <<>>,
             latest_pending_message_id |->
                 IF outcome = "ok" /\ r.ids # <<>> THEN r.ids[Len(r.ids)] ELSE latest,
             pel |-> IF Executed(outcome) THEN r.pel ELSE p]
    ELSE [result |-> "Ok", contacted |-> FALSE, messages |-> <<>>,
          latest_pending_message_id |-> BEGINNING_OF_TIME_ID, pel |-> p]

\* read_pending_messages returning the id of the first message it read.
read_pending_messages_FirstAsCursor(p, consumer, latest, count, outcome) ==
    IF count > 0
    THEN LET r == XReadGroupFrom(p, consumer, latest, count)
         IN [result |-> IF outcome = "ok" THEN "Ok" ELSE "Err",
             contacted |-> TRUE,
             messages |-> IF outcome = "ok" THEN r.ids ELSE <<>>,
             latest_pending_message_id |->
                 IF outcome = "ok" /\ r.ids # <<>> THEN r.ids[1] ELSE BEGINNING_OF_TIME_ID,
             pel |-> IF Executed(outcome) THEN r.pel ELSE p]
    ELSE [result |-> "Ok", contacted |-> FALSE, messages |-> <<>>,
          latest_pending_message_id |-> BEGINNING_OF_TIME_ID, pel |-> p]

read_pending_messages(p, consumer, latest, count, outcome) ==
    IF count > 0
    THEN LET r == XReadGroupFrom(p, consumer, latest, count)
             pending_messages == unwrap_by_key(StreamReadReply(StreamKey, r.ids), StreamKey)
         IN [result |-> IF outcome = "ok" THEN "Ok" ELSE "Err",
             contacted |-> TRUE,
             messages |-> IF outcome = "ok" THEN pending_messages ELSE <<>>,
             latest_pending_message_id |->
                 IF outcome = "ok" /\ pending_messages # <<>>
                 THEN pending_messages[Len(pending_messages)]
                 ELSE BEGINNING_OF_TIME_ID,
             pel |-> IF Executed(outcome) THEN r.pel ELSE p]
    ELSE [result |-> "Ok", contacted |-> FALSE, messages |-> <<>>,
          latest_pending_message_id |-> BEGINNING_OF_TIME_ID, pel |-> p]

\* claim_pending_messages without the count.gt(&0) test.
claim_pending_messages_NoCountCheck(p, consumer, min_idle_time, next, count, outcome) ==
    LET r == XAutoClaim(p, consumer, min_idle_time, next, count)
    IN [result |-> IF outcome = "ok" THEN "Ok" ELSE "Err",
        contacted |-> TRUE,
        messages |-> IF outcome = "ok" THEN r.claimed ELSE <<>>,
        next_id_to_claim |->
            IF outcome = "ok" THEN r.next_stream_id ELSE BEGINNING_OF_TIME_ID,
        pel |-> IF Executed(outcome) THEN r.pel ELSE p]

\* claim_pending_messages not passing the configured min_idle_time on.
claim_pending_messages_NoMinIdle(p, consumer, min_idle_time, next, count, outcome) ==
    IF count > 0
    THEN LET r == XAutoClaim(p, consumer, 0, next, count)
         IN [result |-> IF outcome = "ok" THEN "Ok" ELSE "Err",
             contacted |-> TRUE,
             messages |-> IF outcome = "ok" THEN r.claimed ELSE <<>>,
             next_id_to_claim |->
                 IF outcome = "ok" THEN r.next_stream_id ELSE BEGINNING_OF_TIME_ID,
             pel |-> IF Executed(outcome) THEN r.pel ELSE p]
    ELSE [result |-> "Ok", contacted |-> FALSE, messages |-> <<>>,
          next_id_to_claim |-> BEGINNING_OF_TIME_ID, pel |-> p]

\* claim_pending_messages claiming for a name other than the consumer's own.
claim_pending_messages_WrongConsumer(p, consumer, min_idle_time, next, count, outcome) ==
    IF count > 0
    THEN LET r == XAutoClaim(p, "group", min_idle_time, next, count)
         IN [result |-> IF outcome = "ok" THEN "Ok" ELSE "Err",
             contacted |-> TRUE,
             messages |-> IF outcome = "ok" THEN r.claimed ELSE <<>>,
             next_id_to_claim |->
                 IF outcome = "ok" THEN r.next_stream_id ELSE BEGINNING_OF_TIME_ID,
             pel |-> IF Executed(outcome) THEN r.pel ELSE p]
    ELSE [result |-> "Ok", contacted |-> FALSE, messages |-> <<>>,
          next_id_to_claim |-> BEGINNING_OF_TIME_ID, pel |-> p]

\* claim_pending_messages dropping the claimed entries of the reply.
claim_pending_messages_Discard(p, consumer, min_idle_time, next, count, outcome) ==
    IF count > 0
    THEN LET r == XAutoClaim(p, consumer, min_idle_time, next, count)
         IN [result |-> IF outcome = "ok" THEN "Ok" ELSE "Err",
             contacted |-> TRUE,
             messages |-> <<>>,
             next_id_to_claim |->
                 IF outcome = "ok" THEN r.next_stream_id ELSE BEGINNING_OF_TIME_ID,
             pel |-> IF Executed(outcome) THEN r.pel ELSE p]
    ELSE [result |-> "Ok", contacted |-> FALSE, messages |-> <<>>,
          next_id_to_claim |-> BEGINNING_OF_TIME_ID, pel |-> p]

\* claim_pending_messages keeping the cursor it was given when nothing is claimed.
claim_pending_messages_KeepWhenEmpty(p, consumer, min_idle_time, next, count, outcome) ==
    IF count > 0
    THEN LET r == XAutoClaim(p, consumer, min_idle_time, next, count)
         IN [result |-> IF outcome = "ok" THEN "Ok" ELSE "Err",
             contacted |-> TRUE,
             messages |-> IF outcome = "ok" THEN r.claimed ELSE <<>>,
             next_id_to_claim |->
                 IF outcome = "ok" /\ r.claimed # <<>> THEN r.next_stream_id ELSE next,
             pel |-> IF Executed(outcome) THEN r.pel ELSE p]
    ELSE [result |-> "Ok", contacted |-> FALSE, messages |-> <<>>,
          next_id_to_claim |-> BEGINNING_OF_TIME_ID, pel |-> p]

claim_pending_messages(p, consumer, min_idle_time, next, count, outcome) ==
    IF count > 0
    THEN LET r == XAutoClaim(p, consumer, min_idle_time, next, count)
         IN [result |-> IF outcome = "ok" THEN "Ok" ELSE "Err",
             contacted |-> TRUE,
             messages |-> IF outcome = "ok" THEN r.claimed ELSE <<>>,
             next_id_to_claim |->
                 IF outcome = "ok" THEN r.next_stream_id ELSE BEGINNING_OF_TIME_ID,
             pel |-> IF Executed(outcome) THEN r.pel ELSE p]
    ELSE [result |-> "Ok", contacted |-> FALSE, messages |-> <<>>,
          next_id_to_claim |-> BEGINNING_OF_TIME_ID, pel |-> p]

\* is_still_mine with the two arms of the length test exchanged.
is_still_mine_Inverted(p, consumer, id, outcome) ==
    IF outcome = "ok"
    THEN IF Len(XPendingConsumerCount(p, id, id, 1, consumer)) > 0 THEN "false" ELSE "true"
    ELSE "Err"

\* is_still_mine asking for the group's pending list, not the consumer's.
is_still_mine_AnyConsumer(p, consumer, id, outcome) ==
    IF outcome = "ok"
    THEN IF Len(SortedSeq({x \in Pending(p) : x = id})) > 0 THEN "true" ELSE "false"
    ELSE "Err"

is_still_mine(p, consumer, id, outcome) ==
    IF outcome = "ok"
    THEN IF Len(XPendingConsumerCount(p, id, id, 1, consumer)) > 0 THEN "true" ELSE "false"
    ELSE "Err"

\* ack answering true to every reply of the server.
ack_AnyOk(p, id, outcome) ==
    LET r == XAck(p, id)
    IN [result |-> IF outcome = "ok" THEN "true" ELSE "Err",
        pel |-> IF Executed(outcome) THEN r.pel ELSE p]

\* ack answering from the pending list without the XACK taking effect.
ack_Unsent(p, id, outcome) ==
    [result |-> IF outcome = "ok"
                THEN (IF p[id].owner # NoOwner THEN "true" ELSE "false")
                ELSE "Err",
     pel |-> p]

ack(p, id, outcome) ==
    LET r == XAck(p, id)
    IN [result |-> IF outcome = "ok"
                   THEN (IF r.removed = 1 THEN "true" ELSE "false")
                   ELSE "Err",
        pel |-> IF Executed(outcome) THEN r.pel ELSE p]

\* ------------------------------------------------- waiting for the stream
\* The integer types of the loops that wait for the stream.
U8 == 256
MaxWaitSeconds == 0..(U8 - 1)

RECURSIVE Pow2(_)
Pow2(n) == IF n = 0 THEN 1 ELSE 2 * Pow2(n - 1)

TIME_DELTA == 5
ArithmeticOverflow == [kind |-> "panic", message |-> "arithmetic overflow"]
StreamNotFoundPanic == [kind |-> "panic", message |-> "Stream was not found"]
StreamWasNotFound == [kind |-> "TryAgain", message |-> "Stream was not found"]

\* ------------------------------------------ src/redsumer/consumer.rs
\* RedsumerConsumer, the consumer built from RedsumerConsumerOptions. Its
\* options are fixed at construction, which contacts no server.
RedsumerConsumerOptions ==
    [latest_id : {BEGINNING_OF_TIME_ID, 1}, min_idle_time_milliseconds : MinIdleTimes,
     pending_messages_count : {1, 2}, new_messages_count : {1, 2}, block : {0, 1}]

\* validate_stream_existence: EXISTS until the stream is there or the waiting
\* time is used up.
validate_stream_existence(st) ==
    IF st > 0 THEN [result |-> "Ok", error |-> NoError]
    ELSE [result |-> "Err", error |-> [kind |-> "TryAgain", message |-> "Stream was not found"]]

\* checking_consumer_group: XGROUP CREATE at latest_id, whatever it answers.
checking_consumer_group(st, g, options) == XGroupCreate(st, g, options.latest_id).group

\* autoclaim: XPENDING from latest_id for pending_messages_count ids of the
\* group, then XCLAIM of these ids.
autoclaim(p, consumer, options) ==
    LET ids_to_claim == XPendingCount(p, options.latest_id, MaxEntries,
                                      options.pending_messages_count)
    IN IF Len(ids_to_claim) > 0
       THEN XClaim(p, consumer, options.min_idle_time_milliseconds, ids_to_claim)
       ELSE p

\* The loop of xread_group over the keys of a reply: ids.extend(key.ids).
RECURSIVE ExtendIds(_)
ExtendIds(keys) ==
    IF keys = <<>> THEN <<>> ELSE Head(keys).ids \o ExtendIds(Tail(keys))

\* xread_group reading the new messages before the pending ones.
xread_group_NewFirst(st, g, p, consumer, options) ==
    LET new_messages == XReadGroupNew(st, g, p, consumer, options.new_messages_count)
        pending_messages_reply ==
            XReadGroupFrom(new_messages.pel, consumer, options.latest_id,
                           options.pending_messages_count)
    IN [ids |-> new_messages.ids \o pending_messages_reply.ids,
        new |-> new_messages.ids,
        group |-> new_messages.group,
        pel |-> pending_messages_reply.pel]

\* xread_group: XREADGROUP from latest_id, then XREADGROUP from ">"; the ids
\* of every key of the two replies, in this order.
xread_group(st, g, p, consumer, options) ==
    LET pending_messages_reply ==
            XReadGroupFrom(p, consumer, options.latest_id, options.pending_messages_count)
        new_messages ==
            XReadGroupNew(st, g, pending_messages_reply.pel, consumer,
                          options.new_messages_count)
    IN [ids |-> ExtendIds(StreamReadReply(StreamKey, pending_messages_reply.ids).keys)
                \o ExtendIds((IF new_messages.ids = <<>> THEN NilReply
                              ELSE StreamReadReply(StreamKey, new_messages.ids)).keys),
        new |-> new_messages.ids,
        group |-> new_messages.group,
        pel |-> new_messages.pel]

\* RedsumerConsumer::consume.
consume(st, g, p, consumer, options) ==
    LET v == validate_stream_existence(st)
        g1 == checking_consumer_group(st, g, options)
        p1 == autoclaim(p, consumer, options)
        ids == xread_group(st, g1, p1, consumer, options)
    IN IF v.result = "Err"
       THEN [result |-> "Err", error |-> v.error, messages |-> <<>>, new |-> <<>>,
             group |-> g, pel |-> p]
       ELSE [result |-> "Ok", error |-> NoError, messages |-> ids.ids, new |-> ids.new,
             group |-> ids.group, pel |-> ids.pel]

\* validate_pending_message_ownership answering for this consumer's entries only.
validate_pending_message_ownership_OwnOnly(g, p, consumer, id) ==
    IF ~g.exists THEN "Err"
    ELSE IF p[id].owner = consumer THEN "Ok(true)" ELSE "Err"

\* validate_pending_message_ownership: XPENDING key group id id 1.
validate_pending_message_ownership(g, p, consumer, id) ==
    IF ~g.exists THEN "Err"
    ELSE LET ids == XPendingCount(p, id, id, 1)
         IN IF Len(ids) = 0 THEN "Err"
            ELSE IF p[ids[1]].owner = consumer THEN "Ok(true)" ELSE "Ok(false)"

\* ------------------------------------------------------------ bookkeeping
MaxReplay == 3

\* replay[j] records the replies of the consume calls of an instance j that
\* only replays its pending list (no new messages, no claims), from its
\* construction and for as long as the calls succeed and nothing adds to or
\* removes from the pending list of j's consumer name.
OnlyReplays(cfg) == cfg.new_count = 0 /\ cfg.pending_count > 0 /\ cfg.claim_count = 0

ReplayNext(p2, i, rep) ==
    [j \in Instances |->
        IF ~replay[j].on THEN replay[j]
        ELSE IF PelOf(p2, NameOf(j)) # PelOf(pel, NameOf(j)) THEN ReplayOff
        ELSE IF j = i /\ rep.op = "consume"
        THEN IF rep.kind = "Err" \/ Len(replay[j].replies) >= MaxReplay
             THEN ReplayOff
             ELSE [replay[j] EXCEPT !.replies = Append(@, <<rep.kind, rep.messages>>)]
        ELSE replay[j]]

\* The record of a finished consume call: the ConsumeMessagesReply (kind and
\* messages), the outcome of each phase, the pending-list records the messages
\* had when the winning request reached the server, the cursors the
\* instance had before the last phase, and those it had before the call.
CursorsOf(i) == [latest_pending_message_id |-> latest_pending_message_id[i],
                 next_id_to_claim |-> next_id_to_claim[i]]

StartedWith(i) == IF pc[i] = "idle" THEN CursorsOf(i) ELSE started[i]

ConsumeReply(i, kind, messages, ph) ==
    [op |-> "consume", i |-> i, kind |-> kind, messages |-> messages, phases |-> ph,
     previous |-> [k \in 1..Len(messages) |-> pel[messages[k]]],
     started |-> StartedWith(i),
     was |-> [latest_pending_message_id |-> latest_pending_message_id[i],
              next_id_to_claim |-> next_id_to_claim[i]]]

PhaseOutcome(r) ==
    IF ~r.contacted THEN "skipped"
    ELSE IF r.result = "Err" THEN "error"
    ELSE IF r.messages = <<>> THEN "empty"
    ELSE "batch"

\* ------------------------------------------------------------------- Init
Init ==
    /\ stream = 0
    /\ group = [exists |-> FALSE, last_delivered |-> BEGINNING_OF_TIME_ID]
    /\ pel = [id \in Ids |-> NoPending]
    /\ config = [i \in Instances |-> NoConfig]
    /\ latest_pending_message_id = [i \in Instances |-> BEGINNING_OF_TIME_ID]
    /\ next_id_to_claim = [i \in Instances |-> BEGINNING_OF_TIME_ID]
    /\ pc = [i \in Instances |-> "idle"]
    /\ phases = [i \in Instances |-> NoPhases]
    /\ reply = NoReply
    /\ acked = {}
    /\ newSeen = {}
    /\ replay = [i \in Instances |-> ReplayOff]
    /\ entries = [id \in Ids |-> NoEntry]
    /\ producer = FALSE
    /\ produced = [id \in Ids |-> NoPayload]
    /\ started = [i \in Instances |-> NoCursors]
    /\ replayed = [i \in Instances |-> {}]
    /\ wait = NoWait

\* ---------------------------------------------------------------- actions
\* What a produce call leaves behind and returns.
Produced(r, payload) ==
    /\ stream < MaxEntries
    /\ stream' = r.stream
    /\ entries' = r.entries
    /\ produced' = IF r.result = "Ok" THEN [produced EXCEPT ![r.id] = payload] ELSE produced
    /\ reply' = [op |-> "produce", result |-> r.result, id |-> r.id, error |-> r.error,
                 requests |-> r.requests, appended |-> r.stream - stream]
    /\ UNCHANGED <<group, pel, config, cursors, pc, phases, acked, newSeen,
                 replay, producer, started, replayed, wait>>

\* Producer::produce_from_map.
ProduceFromMap(map, outcome) ==
    Produced(produce_from_map(stream, entries, map, outcome), MapPayload(map))

\* Producer::produce_from_items.
ProduceFromItems(items, outcome) ==
    Produced(produce_from_items(stream, entries, items, outcome), ItemsPayload(items))

\* A producer of the stream appends an entry.
Produce(outcome) == ProduceFromItems(TestItems, outcome)

\* Producer::new performing the validations of Consumer::new.
NewProducer_LikeConsumer(o) ==
    /\ ~producer
    /\ LET p == PingCommand(o.ping)
           v == verify_if_stream_exists(stream, o.exists)
       IN /\ producer' = (p.result = "Ok" /\ v.result = "Ok")
          /\ reply' = [op |-> "new_producer",
                       result |-> IF p.result = "Ok" THEN v.result ELSE "Err",
                       error |-> IF p.result = "Ok" THEN v.error ELSE p.error,
                       issued |-> IF p.result = "Ok" THEN <<"PING", "EXISTS">> ELSE <<"PING">>,
                       outcomes |-> o]
    /\ UNCHANGED <<server, config, cursors, pc, phases, acked, newSeen, replay, entries,
                 produced, started, replayed, wait>>

\* Producer::new: args.build() and client.ping::<String>(), each "?" returning the first error.
NewProducer(o) ==
    /\ ~producer
    /\ LET p == PingCommand(o.ping)
       IN /\ producer' = (p.result = "Ok")
          /\ reply' = [op |-> "new_producer", result |-> p.result, error |-> p.error,
                       issued |-> <<"PING">>, outcomes |-> o]
    /\ UNCHANGED <<server, config, cursors, pc, phases, acked, newSeen, replay, entries,
                 produced, started, replayed, wait>>

\* The caller drops the Producer.
DropProducer ==
    /\ producer
    /\ producer' = FALSE
    /\ reply' = NoReply
    /\ UNCHANGED <<server, config, cursors, pc, phases, acked, newSeen, replay, entries,
                 produced, started, replayed, wait>>

\* Time passes: every pending entry has been idle for one more unit.
Tick ==
    /\ \E id \in Ids : pel[id].owner # NoOwner /\ pel[id].idle < MaxIdle
    /\ pel' = [id \in Ids |->
                 IF pel[id].owner # NoOwner /\ pel[id].idle < MaxIdle
                 THEN [pel[id] EXCEPT !.idle = @ + 1] ELSE pel[id]]
    /\ reply' = NoReply
    /\ UNCHANGED <<stream, group, config, cursors, pc, phases, acked, newSeen, replay,
                 entries, producer, produced, started, replayed, wait>>

\* The outcomes of the three round trips of Consumer::new.
BootOutcomes == [ping : Outcomes, exists : Outcomes, create : Outcomes]
AllOk == [ping |-> "ok", exists |-> "ok", create |-> "ok"]

\* Consumer::new refusing a consumer name that another instance has.
NewConsumer_UniqueName(i, cfg, initial_stream_id, o) ==
    /\ pc[i] = "idle"
    /\ ~Created(i)
    /\ LET p == ping(o.ping)
           v == verify_if_stream_exists(stream, o.exists)
           g == create_consumer_group(stream, group, initial_stream_id, o.create)
           issued == IF p.result = "Err" THEN <<"PING">>
                     ELSE IF v.result = "Err" THEN <<"PING", "EXISTS">>
                     ELSE <<"PING", "EXISTS", "XGROUP CREATE">>
           taken == \E j \in Instances \ {i} :
                        Created(j) /\ NameOf(j) = cfg.consumer_name
           error == IF p.result = "Err" THEN p.error
                    ELSE IF v.result = "Err" THEN v.error
                    ELSE IF g.error # NoError THEN g.error
                    ELSE IF taken THEN TransportError
                    ELSE NoError
           ok == error = NoError
       IN /\ group' = IF Len(issued) = 3 THEN g.group ELSE group
          /\ reply' = [op |-> "new", i |-> i, result |-> IF ok THEN "Ok" ELSE "Err",
                       error |-> error, issued |-> issued, outcomes |-> o,
                       initial_stream_id |-> initial_stream_id,
                       created |-> IF Len(issued) = 3 THEN g.created ELSE "-"]
          /\ IF ok
             THEN /\ config' = [config EXCEPT ![i] = cfg]
                  /\ latest_pending_message_id' =
                         [latest_pending_message_id EXCEPT ![i] = BEGINNING_OF_TIME_ID]
                  /\ next_id_to_claim' = [next_id_to_claim EXCEPT ![i] = BEGINNING_OF_TIME_ID]
                  /\ replay' = [replay EXCEPT ![i] =
                         IF OnlyReplays(cfg)
                         THEN [on |-> TRUE, start |-> PelOf(pel, cfg.consumer_name),
                               replies |-> <<>>]
                         ELSE ReplayOff]
             ELSE UNCHANGED <<config, cursors, replay>>
    /\ UNCHANGED <<stream, pel, pc, phases, acked, newSeen, entries, producer, produced, started, replayed, wait>>

\* Consumer::new: ping, verify_if_stream_exists, create_consumer_group, each
\* "?" returning the first error; the options start with both cursors at
\* BEGINNING_OF_TIME_ID. issued lists the commands that were sent.
NewConsumer(i, cfg, initial_stream_id, o) ==
    /\ pc[i] = "idle"
    /\ ~Created(i)
    /\ LET p == ping(o.ping)
           v == verify_if_stream_exists(stream, o.exists)
           g == create_consumer_group(stream, group, initial_stream_id, o.create)
           issued == IF p.result = "Err" THEN <<"PING">>
                     ELSE IF v.result = "Err" THEN <<"PING", "EXISTS">>
                     ELSE <<"PING", "EXISTS", "XGROUP CREATE">>
           error == IF p.result = "Err" THEN p.error
                    ELSE IF v.result = "Err" THEN v.error
                    ELSE g.error
           ok == error = NoError
       IN /\ group' = IF Len(issued) = 3 THEN g.group ELSE group
          /\ reply' = [op |-> "new", i |-> i, result |-> IF ok THEN "Ok" ELSE "Err",
                       error |-> error, issued |-> issued, outcomes |-> o,
                       initial_stream_id |-> initial_stream_id,
                       created |-> IF Len(issued) = 3 THEN g.created ELSE "-"]
          /\ IF ok
             THEN /\ config' = [config EXCEPT ![i] = cfg]
                  /\ latest_pending_message_id' =
                         [latest_pending_message_id EXCEPT ![i] = BEGINNING_OF_TIME_ID]
                  /\ next_id_to_claim' = [next_id_to_claim EXCEPT ![i] = BEGINNING_OF_TIME_ID]
                  /\ replay' = [replay EXCEPT ![i] =
                         IF OnlyReplays(cfg)
                         THEN [on |-> TRUE, start |-> PelOf(pel, cfg.consumer_name),
                               replies |-> <<>>]
                         ELSE ReplayOff]
             ELSE UNCHANGED <<config, cursors, replay>>
    /\ UNCHANGED <<stream, pel, pc, phases, acked, newSeen, entries, producer, produced, started, replayed, wait>>

\* The caller drops the Consumer; the server keeps the group and its pending
\* lists.
Drop(i) ==
    /\ Created(i)
    /\ pc[i] = "idle"
    /\ config' = [config EXCEPT ![i] = NoConfig]
    /\ latest_pending_message_id' =
           [latest_pending_message_id EXCEPT ![i] = BEGINNING_OF_TIME_ID]
    /\ next_id_to_claim' = [next_id_to_claim EXCEPT ![i] = BEGINNING_OF_TIME_ID]
    /\ replay' = [replay EXCEPT ![i] = ReplayOff]
    /\ reply' = NoReply
    /\ replayed' = [replayed EXCEPT ![i] = {}]
    /\ UNCHANGED <<server, pc, phases, acked, newSeen, entries, producer, produced, started, wait>>

\* Consumer::clone (derive(Clone)): the copy j has the client and the
\* configuration of i, the two cursors with it; no server is contacted.
Clone(i, j) ==
    /\ Created(i) /\ pc[i] = "idle"
    /\ ~Created(j) /\ pc[j] = "idle"
    /\ config' = [config EXCEPT ![j] = config[i]]
    /\ latest_pending_message_id' =
           [latest_pending_message_id EXCEPT ![j] = latest_pending_message_id[i]]
    /\ next_id_to_claim' = [next_id_to_claim EXCEPT ![j] = next_id_to_claim[i]]
    /\ reply' = [op |-> "clone", i |-> j, of |-> i]
    /\ UNCHANGED <<server, pc, phases, acked, newSeen, replay, entries, producer, produced,
                 started, replayed, wait>>

\* The end of a consume call: the reply goes to the caller.
Return(i, kind, messages, ph, p2) ==
    LET rep == ConsumeReply(i, kind, messages, ph)
    IN /\ reply' = rep
       /\ pc' = [pc EXCEPT ![i] = "idle"]
       /\ phases' = [phases EXCEPT ![i] = NoPhases]
       /\ started' = [started EXCEPT ![i] = NoCursors]
       /\ replay' = ReplayNext(p2, i, rep)

\* The consume call goes on with its next phase.
Continue(i, next, ph, p2) ==
    /\ reply' = NoReply
    /\ pc' = [pc EXCEPT ![i] = next]
    /\ phases' = [phases EXCEPT ![i] = ph]
    /\ started' = [started EXCEPT ![i] = StartedWith(i)]
    /\ replay' = ReplayNext(p2, i, NoReply)

\* Consumer::consume, phase N: read_new_messages. With block = 0 the server
\* holds the request until there is an entry to deliver. (c, r and ph are
\* the options, the wrapper's result and the phases run so far.)
ReadNew(i, outcome) ==
    /\ Created(i)
    /\ pc[i] = "idle"
    /\ \E c \in {config[i]} :
       \E r \in {read_new_messages(stream, group, pel, c.consumer_name, c.new_count, outcome)} :
       \E ph \in {[phases[i] EXCEPT !.N = PhaseOutcome(r)]} :
          /\ r.contacted \/ outcome = "ok"
          /\ (r.contacted /\ outcome = "ok" /\ r.messages = <<>>) => c.block > 0
          /\ group' = r.group
          /\ pel' = r.pel
          /\ IF r.result = "Err" THEN
                /\ Return(i, "Err", <<>>, ph, r.pel)
                /\ UNCHANGED newSeen
             ELSE IF Len(r.messages) > 0 THEN
                /\ Return(i, "New", r.messages, ph, r.pel)
                /\ newSeen' = newSeen \cup Range(r.messages)
             ELSE
                /\ Continue(i, "pending", ph, r.pel)
                /\ UNCHANGED newSeen
    /\ UNCHANGED <<stream, config, cursors, acked, entries, producer, produced, replayed, wait>>

\* A cancelled consume that starts the scans of the instance again.
CancelReadNew_ResetsCursors(i, outcome) ==
    /\ Created(i)
    /\ pc[i] = "idle"
    /\ outcome # "ok"
    /\ \E c \in {config[i]} :
       \E r \in {read_new_messages(stream, group, pel, c.consumer_name, c.new_count, outcome)} :
          /\ r.contacted
          /\ group' = r.group
          /\ pel' = r.pel
          /\ reply' = [op |-> "cancelled", i |-> i, started |-> CursorsOf(i),
                       executed |-> Executed(outcome), delivered |-> group.last_delivered]
          /\ replay' = ReplayNext(r.pel, i, NoReply)
    /\ latest_pending_message_id' =
           [latest_pending_message_id EXCEPT ![i] = BEGINNING_OF_TIME_ID]
    /\ next_id_to_claim' = [next_id_to_claim EXCEPT ![i] = BEGINNING_OF_TIME_ID]
    /\ UNCHANGED <<stream, config, pc, phases, acked, newSeen, entries, producer,
                 produced, started, replayed, wait>>

\* Consumer::consume given up by its caller while the request of
\* read_new_messages is in flight: the server has executed the request or
\* has not, and no statement of consume after the request is run.
CancelReadNew(i, outcome) ==
    /\ Created(i)
    /\ pc[i] = "idle"
    /\ outcome # "ok"
    /\ \E c \in {config[i]} :
       \E r \in {read_new_messages(stream, group, pel, c.consumer_name, c.new_count, outcome)} :
          /\ r.contacted
          /\ group' = r.group
          /\ pel' = r.pel
          /\ reply' = [op |-> "cancelled", i |-> i, started |-> CursorsOf(i),
                       executed |-> Executed(outcome), delivered |-> group.last_delivered]
          /\ replay' = ReplayNext(r.pel, i, NoReply)
    /\ UNCHANGED <<stream, config, cursors, pc, phases, acked, newSeen, entries, producer,
                 produced, started, replayed, wait>>

\* Phase P storing the cursor before it looks at the result.
ReadPending_StoreOnError(i, outcome) ==
    /\ pc[i] = "pending"
    /\ \E c \in {config[i]} :
       \E r \in {read_pending_messages(pel, c.consumer_name, latest_pending_message_id[i],
                                      c.pending_count, outcome)} :
       \E ph \in {[phases[i] EXCEPT !.P = PhaseOutcome(r)]} :
          /\ r.contacted \/ outcome = "ok"
          /\ pel' = r.pel
          /\ latest_pending_message_id' =
                 [latest_pending_message_id EXCEPT ![i] = r.latest_pending_message_id]
          /\ replayed' = [replayed EXCEPT ![i] =
                 IF Len(r.messages) > 0 THEN @ \cup Range(r.messages) ELSE {}]
          /\ IF r.result = "Err" THEN Return(i, "Err", <<>>, ph, r.pel)
             ELSE IF Len(r.messages) > 0
             THEN Return(i, "Pending", r.messages, ph, r.pel)
             ELSE Continue(i, "claim", ph, r.pel)
    /\ UNCHANGED <<stream, group, config, next_id_to_claim, acked, newSeen, entries, producer, produced, wait>>

\* Consumer::consume, phase P: read_pending_messages, then
\* update_latest_pending_message_id.
ReadPending(i, outcome) ==
    /\ pc[i] = "pending"
    /\ \E c \in {config[i]} :
       \E r \in {read_pending_messages(pel, c.consumer_name, latest_pending_message_id[i],
                                      c.pending_count, outcome)} :
       \E ph \in {[phases[i] EXCEPT !.P = PhaseOutcome(r)]} :
          /\ r.contacted \/ outcome = "ok"
          /\ pel' = r.pel
          /\ IF r.result = "Err" THEN
                /\ Return(i, "Err", <<>>, ph, r.pel)
                /\ UNCHANGED <<latest_pending_message_id, replayed>>
             ELSE
                /\ latest_pending_message_id' =
                       [latest_pending_message_id EXCEPT ![i] = r.latest_pending_message_id]
                /\ replayed' = [replayed EXCEPT ![i] =
                       IF Len(r.messages) > 0 THEN @ \cup Range(r.messages) ELSE {}]
                /\ IF Len(r.messages) > 0
                   THEN Return(i, "Pending", r.messages, ph, r.pel)
                   ELSE Continue(i, "claim", ph, r.pel)
    /\ UNCHANGED <<stream, group, config, next_id_to_claim, acked, newSeen, entries, producer, produced, wait>>

\* The MessagesKind of the reply after phase C.
ClaimedKind_NoLengthCheck(messages) == "Claimed"

\* The reply after phase C built with the tag of phase P.
ClaimedKind_AsPending(messages) == IF Len(messages) > 0 THEN "Pending" ELSE "NotFound"

ClaimedKind(messages) == IF Len(messages) > 0 THEN "Claimed" ELSE "NotFound"

\* Phase C storing the cursor before it looks at the result.
Claim_StoreOnError(i, outcome) ==
    /\ pc[i] = "claim"
    /\ \E c \in {config[i]} :
       \E r \in {claim_pending_messages(pel, c.consumer_name, c.min_idle_time,
                                       next_id_to_claim[i], c.claim_count, outcome)} :
       \E ph \in {[phases[i] EXCEPT !.C = PhaseOutcome(r)]} :
          /\ r.contacted \/ outcome = "ok"
          /\ pel' = r.pel
          /\ next_id_to_claim' = [next_id_to_claim EXCEPT ![i] = r.next_id_to_claim]
          /\ IF r.result = "Err" THEN Return(i, "Err", <<>>, ph, r.pel)
             ELSE Return(i, ClaimedKind(r.messages), r.messages, ph, r.pel)
    /\ UNCHANGED <<stream, group, config, latest_pending_message_id, acked, newSeen,
                 entries, producer, produced, replayed, wait>>

\* Consumer::consume, phase C: claim_pending_messages, then
\* update_next_id_to_claim; without claimed messages the reply is NotFound.
Claim(i, outcome) ==
    /\ pc[i] = "claim"
    /\ \E c \in {config[i]} :
       \E r \in {claim_pending_messages(pel, c.consumer_name, c.min_idle_time,
                                       next_id_to_claim[i], c.claim_count, outcome)} :
       \E ph \in {[phases[i] EXCEPT !.C = PhaseOutcome(r)]} :
          /\ r.contacted \/ outcome = "ok"
          /\ pel' = r.pel
          /\ IF r.result = "Err" THEN
                /\ Return(i, "Err", <<>>, ph, r.pel)
                /\ UNCHANGED next_id_to_claim
             ELSE
                /\ next_id_to_claim' = [next_id_to_claim EXCEPT ![i] = r.next_id_to_claim]
                /\ Return(i, ClaimedKind(r.messages), r.messages, ph, r.pel)
    /\ UNCHANGED <<stream, group, config, latest_pending_message_id, acked, newSeen,
                 entries, producer, produced, replayed, wait>>

\* Consumer::is_still_mine.
IsStillMine(i, id, outcome) ==
    /\ Created(i)
    /\ pc[i] = "idle"
    /\ reply' = [op |-> "is_still_mine", i |-> i, id |-> id,
                 result |-> is_still_mine(pel, NameOf(i), id, outcome)]
    /\ UNCHANGED <<server, config, cursors, pc, phases, acked, newSeen, replay, entries,
                 producer, produced, started, replayed, wait>>

\* Consumer::ack starting the pending scan again.
Ack_ResetsCursor(i, id, outcome) ==
    /\ Created(i)
    /\ pc[i] = "idle"
    /\ LET r == ack(pel, id, outcome)
       IN /\ pel' = r.pel
          /\ reply' = [op |-> "ack", i |-> i, id |-> id, result |-> r.result,
                       owner |-> pel[id].owner]
          /\ acked' = IF r.result = "true" THEN acked \cup {id} ELSE acked
          /\ replay' = ReplayNext(r.pel, i, NoReply)
    /\ latest_pending_message_id' =
           [latest_pending_message_id EXCEPT ![i] = BEGINNING_OF_TIME_ID]
    /\ UNCHANGED <<stream, group, config, next_id_to_claim, pc, phases, newSeen, entries,
                 producer, produced, started, replayed, wait>>

\* Consumer::ack removing the entry from the pending list of the caller only.
Ack_OwnOnly(i, id, outcome) ==
    /\ Created(i)
    /\ pc[i] = "idle"
    /\ LET r == IF pel[id].owner = NameOf(i) THEN ack(pel, id, outcome)
                ELSE [ack(pel, id, outcome) EXCEPT !.pel = pel, !.result = "false"]
       IN /\ pel' = r.pel
          /\ reply' = [op |-> "ack", i |-> i, id |-> id, result |-> r.result,
                       owner |-> pel[id].owner]
          /\ acked' = IF r.result = "true" THEN acked \cup {id} ELSE acked
          /\ replay' = ReplayNext(r.pel, i, NoReply)
    /\ UNCHANGED <<stream, group, config, cursors, pc, phases, newSeen, entries, producer, produced, started, replayed, wait>>

\* Consumer::ack.
Ack(i, id, outcome) ==
    /\ Created(i)
    /\ pc[i] = "idle"
    /\ LET r == ack(pel, id, outcome)
       IN /\ pel' = r.pel
          /\ reply' = [op |-> "ack", i |-> i, id |-> id, result |-> r.result,
                       owner |-> pel[id].owner]
          /\ acked' = IF r.result = "true" THEN acked \cup {id} ELSE acked
          /\ replay' = ReplayNext(r.pel, i, NoReply)
    /\ UNCHANGED <<stream, group, config, cursors, pc, phases, newSeen, entries, producer, produced, started, replayed, wait>>

\* RedsumerConsumer::consume of the consumer named consumer, built with
\* options; with nothing new to read the call returns when the block time is
\* over, and with block 0 it waits for an entry.
RedsumerConsume(consumer, options) ==
    /\ \E r \in {consume(stream, group, pel, consumer, options)} :
          /\ (r.result = "Ok" /\ r.new = <<>>) => options.block > 0
          /\ group' = r.group
          /\ pel' = r.pel
          /\ reply' = [op |-> "redsumer_consume", consumer |-> consumer, options |-> options,
                       result |-> r.result, error |-> r.error, messages |-> r.messages]
    /\ UNCHANGED <<stream, config, cursors, pc, phases, acked, newSeen, replay, entries,
                 producer, produced, started, replayed, wait>>

\* RedsumerConsumer::validate_pending_message_ownership.
ValidatePendingMessageOwnership(consumer, id) ==
    /\ reply' = [op |-> "validate_pending_message_ownership", consumer |-> consumer,
                 id |-> id,
                 result |-> validate_pending_message_ownership(group, pel, consumer, id)]
    /\ UNCHANGED <<server, config, cursors, pc, phases, acked, newSeen, replay, entries,
                 producer, produced, started, replayed, wait>>

\* RedsumerConsumer::acknowledge: XACK key group id.
Acknowledge(consumer, id) ==
    /\ LET r == XAck(pel, id)
       IN /\ pel' = r.pel
          /\ reply' = [op |-> "acknowledge", consumer |-> consumer, id |-> id,
                       result |-> r.removed]
          /\ acked' = IF r.removed = 1 THEN acked \cup {id} ELSE acked
    /\ UNCHANGED <<stream, group, config, cursors, pc, phases, newSeen, replay, entries,
                 producer, produced, started, replayed, wait>>

\* RedsumerConsumer::validate_stream_existence is entered by a consumer whose
\* options hold max_wait_seconds_for_stream = max_wait.
StartValidate(max_wait) ==
    /\ wait.pc = "idle"
    /\ wait' = [loop |-> "validate_stream_existence", pc |-> "probe", max_wait |-> max_wait,
                step |-> 0, wait_time |-> 0, probes |-> 0, slept |-> 0,
                result |-> "-", error |-> NoError]
    /\ UNCHANGED <<server, config, cursors, pc, phases, reply, acked, newSeen, replay,
                 entries, producer, produced, started, replayed>>

\* The loop body giving up as soon as the next wait reaches the maximum.
ValidateProbe_AtLeast(outcome) ==
    /\ wait.pc = "probe"
    /\ wait.loop = "validate_stream_existence"
    /\ LET probed == [wait EXCEPT !.probes = @ + 1]
           wait_time == Pow2(wait.step)
       IN wait' =
            IF outcome # "ok"
            THEN [probed EXCEPT !.pc = "done", !.result = "Err", !.error = TransportError]
            ELSE IF stream > 0
            THEN [probed EXCEPT !.pc = "done", !.result = "Ok"]
            ELSE IF wait_time >= wait.max_wait
            THEN [probed EXCEPT !.pc = "done", !.result = "Err", !.error = StreamWasNotFound]
            ELSE [probed EXCEPT !.pc = "sleep", !.wait_time = wait_time]
    /\ UNCHANGED <<server, config, cursors, pc, phases, reply, acked, newSeen, replay,
                 entries, producer, produced, started, replayed>>

\* The body of the loop of validate_stream_existence up to its sleep: EXISTS,
\* whose error "?" returns, then the next wait, 2u64.pow(step), against
\* max_wait_seconds_for_stream. (step: u32 stays below 9 and the wait below
\* 2^9, far from the ends of their types.)
ValidateProbe(outcome) ==
    /\ wait.pc = "probe"
    /\ wait.loop = "validate_stream_existence"
    /\ LET probed == [wait EXCEPT !.probes = @ + 1]
           wait_time == Pow2(wait.step)
       IN wait' =
            IF outcome # "ok"
            THEN [probed EXCEPT !.pc = "done", !.result = "Err", !.error = TransportError]
            ELSE IF stream > 0
            THEN [probed EXCEPT !.pc = "done", !.result = "Ok"]
            ELSE IF wait_time > wait.max_wait
            THEN [probed EXCEPT !.pc = "done", !.result = "Err", !.error = StreamWasNotFound]
            ELSE [probed EXCEPT !.pc = "sleep", !.wait_time = wait_time]
    /\ UNCHANGED <<server, config, cursors, pc, phases, reply, acked, newSeen, replay,
                 entries, producer, produced, started, replayed>>

\* sleep(wait_time) is over and step += 1.
ValidateSleep ==
    /\ wait.pc = "sleep"
    /\ wait.loop = "validate_stream_existence"
    /\ wait' = [wait EXCEPT !.pc = "probe", !.step = @ + 1,
                            !.slept = IF wait.wait_time > @ THEN wait.wait_time ELSE @]
    /\ UNCHANGED <<server, config, cursors, pc, phases, reply, acked, newSeen, replay,
                 entries, producer, produced, started, replayed>>

\* RedisStreamsConsumer::wait_for_stream is entered by a consumer built with
\* max_wait_seconds_for_stream = max_wait, in a build that checks its integer
\* arithmetic (it panics on overflow) or in one that does not (it wraps).
StartWaitForStream(max_wait, overflow_checks) ==
    /\ wait.pc = "idle"
    /\ wait' = [loop |-> "wait_for_stream", pc |-> "probe", max_wait |-> max_wait,
                step |-> 0, wait_time |-> 0, overflow_checks |-> overflow_checks,
                overflowed |-> FALSE, result |-> "-", error |-> NoError]
    /\ UNCHANGED <<server, config, cursors, pc, phases, reply, acked, newSeen, replay,
                 entries, producer, produced, started, replayed>>

\* The body of the loop of wait_for_stream up to its sleep: EXISTS, whose
\* error panics, then step += 1 and wait_time = TIME_DELTA * step, both u8,
\* and the panic "Stream ... was not found" when wait_time exceeds the
\* maximum.
WaitProbe(outcome) ==
    /\ wait.pc = "probe"
    /\ wait.loop = "wait_for_stream"
    /\ LET sum == wait.step + 1
           step == sum % U8
           product == TIME_DELTA * step
           wait_time == product % U8
           overflows == sum >= U8 \/ product >= U8
       IN wait' =
            IF outcome # "ok"
            THEN [wait EXCEPT !.pc = "done", !.result = "panic", !.error = TransportError]
            ELSE IF stream > 0
            THEN [wait EXCEPT !.pc = "done", !.result = "ready"]
            ELSE IF overflows /\ wait.overflow_checks
            THEN [wait EXCEPT !.pc = "done", !.result = "panic", !.error = ArithmeticOverflow,
                              !.overflowed = TRUE]
            ELSE IF wait_time > wait.max_wait
            THEN [wait EXCEPT !.pc = "done", !.result = "panic", !.error = StreamNotFoundPanic,
                              !.step = step, !.wait_time = wait_time,
                              !.overflowed = @ \/ overflows]
            ELSE [wait EXCEPT !.pc = "sleep", !.step = step, !.wait_time = wait_time,
                              !.overflowed = @ \/ overflows]
    /\ UNCHANGED <<server, config, cursors, pc, phases, reply, acked, newSeen, replay,
                 entries, producer, produced, started, replayed>>

\* sleep(wait_time) is over.
WaitSleep ==
    /\ wait.pc = "sleep"
    /\ wait.loop = "wait_for_stream"
    /\ wait' = [wait EXCEPT !.pc = "probe"]
    /\ UNCHANGED <<server, config, cursors, pc, phases, reply, acked, newSeen, replay,
                 entries, producer, produced, started, replayed>>

\* The caller takes the value its call returned.
Receive ==
    /\ reply # NoReply
    /\ reply' = NoReply
    /\ UNCHANGED <<server, config, cursors, pc, phases, acked, newSeen, replay, entries,
                 producer, produced, started, replayed, wait>>

\* No returned value is waiting for its caller.
Ready == reply = NoReply

\* Every round trip succeeds.
Next ==
    \/ Receive
    \/ Ready /\ Produce("ok")
    \/ Ready /\ Tick
    \/ Ready /\ \E i \in Instances : \E cfg \in ConfigsOf(i), since \in InitialIds :
                   NewConsumer(i, cfg, since, AllOk)
    \/ Ready /\ \E i \in Instances : ReadNew(i, "ok")
    \/ Ready /\ \E i \in Instances : ReadPending(i, "ok")
    \/ Ready /\ \E i \in Instances : Claim(i, "ok")
    \/ Ready /\ \E i \in Instances, id \in Ids : IsStillMine(i, id, "ok")
    \/ Ready /\ \E i \in Instances, id \in Ids : Ack(i, id, "ok")

Spec == Init /\ [][Next]_vars

\* One consumer name whose instance is dropped and constructed again with
\* other options (tests/test_redsumer.rs does so with "consumer").
ReplayInstances == {"i1"}

NextReplay ==
    \/ Receive
    \/ Ready /\ Produce("ok")
    \/ Ready /\ Tick
    \/ Ready /\ \E i \in ReplayInstances : \E cfg \in ConfigsOf(i), since \in InitialIds :
                   NewConsumer(i, cfg, since, AllOk)
    \/ Ready /\ \E i \in ReplayInstances : Drop(i)
    \/ Ready /\ \E i \in ReplayInstances : ReadNew(i, "ok")
    \/ Ready /\ \E i \in ReplayInstances : ReadPending(i, "ok")
    \/ Ready /\ \E i \in ReplayInstances : Claim(i, "ok")
    \/ Ready /\ \E i \in ReplayInstances, id \in Ids : IsStillMine(i, id, "ok")
    \/ Ready /\ \E i \in ReplayInstances, id \in Ids : Ack(i, id, "ok")

SpecReplay == Init /\ [][NextReplay]_vars

\* One step of a consume call of instance i.
Consume(i, outcome) ==
    \/ ReadNew(i, outcome)
    \/ ReadPending(i, outcome)
    \/ Claim(i, outcome)

\* Two workers: "a" with or without new messages enabled, and "b", which
\* reads new messages and keeps calling consume.
DeliveryConfigs(i) ==
    IF i = "i1"
    THEN {cfg \in ConsumerConfig :
            /\ cfg.consumer_name = "a" /\ cfg.block = cfg.new_count
            /\ cfg.pending_count > 0 /\ cfg.claim_count > 0}
    ELSE {cfg \in ConsumerConfig :
            /\ cfg.consumer_name = "b" /\ cfg.new_count > 0
            /\ cfg.pending_count > 0 /\ cfg.claim_count > 0}

NextDelivery ==
    \/ Produce("ok")
    \/ Tick
    \/ \E i \in Instances : \E cfg \in DeliveryConfigs(i), since \in InitialIds :
          NewConsumer(i, cfg, since, AllOk)
    \/ \E i \in Instances : Consume(i, "ok")
    \/ \E i \in Instances, id \in Ids : Ack(i, id, "ok")

\* Instance i2 keeps calling consume and every round trip succeeds.
SpecDelivery == Init /\ [][NextDelivery]_vars /\ WF_vars(Consume("i2", "ok"))

\* Consumer "a" takes entries and then dies; consumer "b" has the three
\* phases enabled, with or without a block time.
RecoveryConfigs(i) ==
    IF i = "i1"
    THEN {cfg \in ConsumerConfig :
            /\ cfg.consumer_name = "a" /\ cfg.new_count > 0 /\ cfg.block > 0
            /\ cfg.pending_count > 0 /\ cfg.claim_count > 0}
    ELSE {cfg \in ConsumerConfig :
            /\ cfg.consumer_name = "b" /\ cfg.new_count > 0
            /\ cfg.pending_count > 0 /\ cfg.claim_count > 0}

\* The loop of the crate documentation run by instance i: consume, then ack
\* every message of the reply that is still pending for i, then consume again.
Worker(i) ==
    \/ PelOf(pel, NameOf(i)) = {} /\ ReadNew(i, "ok")
    \/ ReadPending(i, "ok")
    \/ Claim(i, "ok")
    \/ \E id \in PelOf(pel, NameOf(i)) : Ack(i, id, "ok")

\* Instance i1 creates the group, works for a while and is dropped for good;
\* instance i2 runs the worker loop.
NextRecovery ==
    \/ Produce("ok")
    \/ Tick
    \/ \E cfg \in RecoveryConfigs("i1"), since \in InitialIds :
          ~group.exists /\ NewConsumer("i1", cfg, since, AllOk)
    \/ \E cfg \in RecoveryConfigs("i2"), since \in InitialIds :
          NewConsumer("i2", cfg, since, AllOk)
    \/ Consume("i1", "ok")
    \/ \E id \in Ids : Ack("i1", id, "ok")
    \/ Drop("i1")
    \/ Worker("i2")

\* Time passes and instance i2 keeps running its loop.
SpecRecovery ==
    Init /\ [][NextRecovery]_vars /\ WF_vars(Tick) /\ WF_vars(Worker("i2"))

\* The replies a read may be answered with: at most MaxKeys streams, each with
\* a batch of entries in increasing order.
\* The ids a group may be seeded with.
BootstrapIds == {BEGINNING_OF_TIME_ID, 1}

BootstrapConfigs(i) ==
    {cfg \in ConsumerConfig :
        /\ cfg.consumer_name = (IF i = "i1" THEN "a" ELSE "b")
        /\ cfg.new_count > 0 /\ cfg.block > 0
        /\ cfg.pending_count > 0 /\ cfg.claim_count > 0}

\* Consumers are constructed against a server that may or may not hold the
\* stream and the group, each of the three commands of Consumer::new
\* succeeding or failing; constructed consumers consume, acknowledge and are
\* dropped.
NextBootstrap ==
    \/ Receive
    \/ Ready /\ Produce("ok")
    \/ Ready /\ \E i \in Instances : \E cfg \in BootstrapConfigs(i), since \in BootstrapIds,
                                     o \in BootOutcomes :
          NewConsumer(i, cfg, since, o)
    \/ Ready /\ \E i \in Instances : Consume(i, "ok")
    \/ Ready /\ \E i \in Instances, id \in Ids : Ack(i, id, "ok")
    \/ Ready /\ \E i \in Instances : Drop(i)

SpecBootstrap == Init /\ [][NextBootstrap]_vars

\* Consumers "a" and "b" with their three phases enabled.
FaultConfigs(i) ==
    {cfg \in ConsumerConfig :
        /\ cfg.consumer_name = (IF i = "i1" THEN "a" ELSE "b")
        /\ cfg.new_count > 0 /\ cfg.block > 0
        /\ cfg.pending_count > 0 /\ cfg.claim_count > 0}

\* Consumer "a" runs against a server whose round trips may fail: the request
\* of a phase is lost, or its reply is; its peer "b" consumes beside it.
NextFaults ==
    \/ Receive
    \/ Ready /\ Produce("ok")
    \/ Ready /\ Tick
    \/ Ready /\ \E i \in Instances : \E cfg \in FaultConfigs(i), since \in InitialIds :
                   NewConsumer(i, cfg, since, AllOk)
    \/ Ready /\ \E outcome \in Outcomes : ReadNew("i1", outcome)
    \/ Ready /\ \E outcome \in Outcomes : ReadPending("i1", outcome)
    \/ Ready /\ \E outcome \in Outcomes : Claim("i1", outcome)
    \/ Ready /\ \E outcome \in Outcomes : CancelReadNew("i1", outcome)
    \/ Ready /\ Consume("i2", "ok")

SpecFaults == Init /\ [][NextFaults]_vars

\* Two instances under one consumer name: i1 reads new messages, and i2 is
\* its clone or is constructed with the same name, with or without new
\* messages to read.
SameNameConfigs(i) ==
    {cfg \in ConsumerConfig :
        /\ cfg.consumer_name = "a"
        /\ cfg.pending_count > 0 /\ cfg.claim_count = 0
        /\ IF i = "i1" THEN cfg.new_count > 0 /\ cfg.block > 0
           ELSE cfg.new_count = 0 /\ cfg.block = 0}

NextSameName ==
    \/ Receive
    \/ Ready /\ Produce("ok")
    \/ Ready /\ \E i \in Instances : \E cfg \in SameNameConfigs(i), since \in InitialIds :
                   NewConsumer(i, cfg, since, AllOk)
    \/ Ready /\ Clone("i1", "i2")
    \/ Ready /\ \E i \in Instances : Consume(i, "ok")
    \/ Ready /\ \E i \in Instances, id \in Ids : IsStillMine(i, id, "ok")
    \/ Ready /\ \E i \in Instances, id \in Ids : Ack(i, id, "ok")

SpecSameName == Init /\ [][NextSameName]_vars

\* One step of the loop of validate_stream_existence.
ValidateStep == ValidateSleep \/ \E outcome \in Outcomes : ValidateProbe(outcome)

\* A RedsumerConsumer waits for its stream, which a producer may create
\* while it waits.
NextValidate ==
    \/ Receive
    \/ Ready /\ stream = 0 /\ Produce("ok")
    \/ \E max_wait \in MaxWaitSeconds : StartValidate(max_wait)
    \/ \E outcome \in Outcomes : ValidateProbe(outcome)
    \/ ValidateSleep

\* The task that runs the loop is scheduled for as long as the loop goes on.
SpecValidate == Init /\ [][NextValidate]_vars /\ WF_vars(ValidateStep)

\* A RedisStreamsConsumer waits for its stream, which a producer may create
\* while it waits.
NextWaitForStream ==
    \/ Receive
    \/ Ready /\ stream = 0 /\ Produce("ok")
    \/ \E max_wait \in MaxWaitSeconds, overflow_checks \in BOOLEAN :
          StartWaitForStream(max_wait, overflow_checks)
    \/ \E outcome \in Outcomes : WaitProbe(outcome)
    \/ WaitSleep

SpecWaitForStream == Init /\ [][NextWaitForStream]_vars

\* Two RedsumerConsumers of one group consume, check their ownership and
\* acknowledge while entries are produced and time passes.
NextRedsumer ==
    \/ Produce("ok")
    \/ Tick
    \/ \E consumer \in Names, options \in RedsumerConsumerOptions :
          RedsumerConsume(consumer, options)
    \/ \E consumer \in Names, id \in Ids : ValidatePendingMessageOwnership(consumer, id)
    \/ \E consumer \in Names, id \in Ids : Acknowledge(consumer, id)

SpecRedsumer == Init /\ [][NextRedsumer]_vars

\* The configurations of the consumer that reads what the producer wrote.
ProducerPeerConfigs ==
    {cfg \in ConsumerConfig :
        /\ cfg.consumer_name = "a" /\ cfg.new_count > 0 /\ cfg.block > 0
        /\ cfg.pending_count = 0 /\ cfg.claim_count = 0}

\* The first entry of the stream is produced from any payload, the later ones
\* from the payload of the tests.
ProducerMaps == IF stream = 0 THEN Maps ELSE {[f \in {"f"} |-> TestItems[1].value]}
ProducerItems == IF stream = 0 THEN Items ELSE {TestItems}

\* A producer is constructed, produces maps and lists of items and is dropped,
\* each round trip succeeding or failing; a consumer of the stream reads.
NextProducer ==
    \/ Receive
    \/ Ready /\ \E o \in BootOutcomes : NewProducer(o)
    \/ Ready /\ producer /\ \E map \in ProducerMaps, outcome \in Outcomes :
          ProduceFromMap(map, outcome)
    \/ Ready /\ producer /\ \E items \in ProducerItems, outcome \in Outcomes :
          ProduceFromItems(items, outcome)
    \/ Ready /\ DropProducer
    \/ Ready /\ \E cfg \in ProducerPeerConfigs : NewConsumer("i1", cfg, BEGINNING_OF_TIME_ID, AllOk)
    \/ Ready /\ ReadNew("i1", "ok")

SpecProducer == Init /\ [][NextProducer]_vars

MaxKeys == 2
Batches == {SortedSeq(S) : S \in SUBSET Ids}
StreamReadReplies ==
    {[keys |-> ks] : ks \in UNION {[1..n -> [key : StreamKeys, ids : Batches]] : n \in 0..MaxKeys}}

\* unwrap_by_key applied to a reply.
UnwrapByKey(read, key) ==
    /\ reply' = [op |-> "unwrap_by_key", read |-> read, key |-> key,
                 ids |-> unwrap_by_key(read, key)]
    /\ UNCHANGED <<server, config, cursors, pc, phases, acked, newSeen, replay, entries,
                 producer, produced, started, replayed, wait>>

NextUnwrap ==
    \/ Receive
    \/ Ready /\ \E read \in StreamReadReplies, key \in StreamKeys : UnwrapByKey(read, key)

SpecUnwrap == Init /\ [][NextUnwrap]_vars

TypeOK ==
    /\ stream \in 0..MaxEntries
    /\ group.last_delivered \in 0..stream
    /\ \A id \in Ids : pel[id].owner \in Names \cup {NoOwner} /\ pel[id].idle \in 0..MaxIdle
    /\ \A i \in Instances : pc[i] \in {"idle", "pending", "claim"}

\* ------------------------------------------------------------- properties
IsConsumeReply == reply.op = "consume" /\ reply.kind # "Err"
Contacted(ph, x) == ph[x] \in {"empty", "batch", "error"}
YieldedEmpty(ph, x) == ph[x] \in {"skipped", "empty"}
Last(s) == s[Len(s)]
StillMine(name, id) == is_still_mine(pel, name, id, "ok") = "true"

\* C1: in every consume call a phase contacts the server iff its count is
\* positive and every earlier phase yielded an empty batch; the first phase
\* with a non-empty batch ends the call and no later phase runs.
C1_PhaseOrder ==
    reply.op = "consume" =>
        LET c == config[reply.i]
            ph == reply.phases
        IN /\ Contacted(ph, "N") <=> c.new_count > 0
           /\ Contacted(ph, "P") <=> (c.pending_count > 0 /\ YieldedEmpty(ph, "N"))
           /\ Contacted(ph, "C") <=>
                 (c.claim_count > 0 /\ YieldedEmpty(ph, "N") /\ YieldedEmpty(ph, "P"))
           /\ ph.N = "batch" => (ph.P = "notrun" /\ ph.C = "notrun" /\ reply.messages # <<>>)
           /\ ph.P = "batch" => (ph.C = "notrun" /\ reply.messages # <<>>)
           /\ ph.C = "batch" => reply.messages # <<>>

\* An empty reply of phase N let phase P run, whose batch ended the call
\* before phase C, which was enabled.
C1_Witness ==
    /\ reply.op = "consume"
    /\ reply.phases = [N |-> "empty", P |-> "batch", C |-> "notrun"]
    /\ config[reply.i].claim_count > 0

\* C2: the tag of a successful consume reply names the phase the batch came
\* from, and NotFound is the tag exactly when all three phases were empty; a
\* returned batch is pending for the consumer that received it.
C2_TagAgreesWithBatch ==
    IsConsumeReply =>
        LET ph == reply.phases
            i == reply.i
        IN /\ reply.kind = "New" <=> ph.N = "batch"
           /\ reply.kind = "Pending" <=> ph.P = "batch"
           /\ reply.kind = "Claimed" <=> ph.C = "batch"
           /\ reply.kind = "NotFound" <=>
                 (YieldedEmpty(ph, "N") /\ YieldedEmpty(ph, "P") /\ YieldedEmpty(ph, "C"))
           /\ reply.kind \in {"New", "Pending", "Claimed"} <=> reply.messages # <<>>
           /\ Range(reply.messages) \subseteq PelOf(pel, NameOf(i))
           /\ reply.kind = "New" => group.last_delivered = Last(reply.messages)
           /\ reply.kind = "Pending" => latest_pending_message_id[i] = Last(reply.messages)

\* A consume whose three phases all contacted the server and found nothing.
C2_Witness ==
    /\ IsConsumeReply
    /\ reply.kind = "NotFound"
    /\ reply.phases = [N |-> "empty", P |-> "empty", C |-> "empty"]

\* C3: an entry returned tagged New is never returned tagged New again, to
\* the same or to another consumer of the group.
C3_NewOnlyOnce ==
    [][(reply'.op = "consume" /\ reply'.kind = "New")
          => Range(reply'.messages) \cap newSeen = {}]_vars

\* Consumer "b" gets a New batch after another entry went, New, to a consumer
\* that is still holding it.
C3_Witness ==
    /\ IsConsumeReply
    /\ reply.kind = "New"
    /\ NameOf(reply.i) = "b"
    /\ \E id \in newSeen : id \notin Range(reply.messages) /\ pel[id].owner = "a"

\* C4: an entry pending for another consumer reaches a consumer only tagged
\* Claimed, and only if at the request it had been idle for at least the
\* min_idle_time of the claiming consumer.
C4_OnlyByClaimAfterIdle ==
    IsConsumeReply =>
        \A k \in 1..Len(reply.messages) :
            reply.previous[k].owner \notin {NoOwner, NameOf(reply.i)} =>
                /\ reply.kind = "Claimed"
                /\ reply.previous[k].idle >= config[reply.i].min_idle_time

\* Consumer "b" claimed an entry that was pending for "a".
C4_Witness ==
    /\ IsConsumeReply
    /\ reply.kind = "Claimed"
    /\ NameOf(reply.i) = "b"
    /\ \E k \in 1..Len(reply.messages) : reply.previous[k].owner = "a"

\* C5: right after a consume returned an entry tagged Claimed that was
\* pending for another consumer, is_still_mine is true for the claimer and
\* false for the previous owner.
C5_OwnershipTransfer ==
    (IsConsumeReply /\ reply.kind = "Claimed") =>
        \A k \in 1..Len(reply.messages) :
            reply.previous[k].owner # NameOf(reply.i) =>
                /\ StillMine(NameOf(reply.i), reply.messages[k])
                /\ ~StillMine(reply.previous[k].owner, reply.messages[k])

\* Consumer "a" claimed an entry that was pending for "b".
C5_Witness ==
    /\ IsConsumeReply
    /\ reply.kind = "Claimed"
    /\ NameOf(reply.i) = "a"
    /\ \E k \in 1..Len(reply.messages) : reply.previous[k].owner = "b"

\* C6: every is_still_mine(id) called after an ack(id) returned true answers
\* false.
C6_AckedNotMine ==
    (reply.op = "is_still_mine" /\ reply.id \in acked) => reply.result = "false"

\* is_still_mine was asked about an acknowledged entry.
C6_Witness ==
    /\ reply.op = "is_still_mine"
    /\ reply.id \in acked

\* C7: ack answers true iff the server removed the entry from the pending
\* list, and an ack of an id that an earlier ack answered true for answers
\* false, not an error.
C7_AckIdempotent ==
    [][reply'.op = "ack" =>
          /\ reply'.result = "true" <=>
                (pel[reply'.id].owner # NoOwner /\ pel'[reply'.id].owner = NoOwner)
          /\ reply'.id \in acked => reply'.result = "false"]_vars

\* The second ack of an entry.
C7_Witness ==
    /\ reply.op = "ack"
    /\ reply.id \in acked
    /\ reply.result = "false"

\* C8: is_still_mine answers true iff the id is pending for the calling
\* consumer, and false, not an error, in every other case.
C8_StillMineIffOwnPending ==
    reply.op = "is_still_mine" =>
        /\ reply.result \in {"true", "false"}
        /\ reply.result = "true" <=> pel[reply.id].owner = NameOf(reply.i)

\* is_still_mine was asked about an entry pending for the other consumer.
C8_Witness ==
    /\ reply.op = "is_still_mine"
    /\ reply.result = "false"
    /\ pel[reply.id].owner \notin {NoOwner, NameOf(reply.i)}

\* C9 as stated: across consume calls of an instance neither cursor ever
\* decreases, except that latest_pending_message_id returns to 0-0 after an
\* empty batch of phase P; next_id_to_claim is never reset.
C9_CursorsNeverDecrease ==
    [][\A i \in Instances :
          (Created(i) /\ config'[i] = config[i]) =>
              /\ next_id_to_claim'[i] >= next_id_to_claim[i]
              /\ \/ latest_pending_message_id'[i] >= latest_pending_message_id[i]
                 \/ /\ latest_pending_message_id'[i] = BEGINNING_OF_TIME_ID
                    /\ pc[i] = "pending" /\ pc'[i] = "claim"]_vars

\* C9 (amended): latest_pending_message_id grows with every non-empty Pending
\* batch and decreases only to 0-0 after an empty batch of phase P;
\* next_id_to_claim decreases only to 0-0, and only when the server answered
\* a phase-C request with that cursor (its scan reached the end of the
\* pending list).
C9_CursorsAdvanceOrRestart ==
    [][\A i \in Instances :
          (Created(i) /\ config'[i] = config[i]) =>
              /\ latest_pending_message_id'[i] < latest_pending_message_id[i] =>
                    /\ latest_pending_message_id'[i] = BEGINNING_OF_TIME_ID
                    /\ pc[i] = "pending" /\ pc'[i] = "claim"
              /\ (reply'.op = "consume" /\ reply'.i = i /\ reply'.kind = "Pending") =>
                    latest_pending_message_id'[i] > latest_pending_message_id[i]
              /\ next_id_to_claim'[i] < next_id_to_claim[i] =>
                    /\ next_id_to_claim'[i] = BEGINNING_OF_TIME_ID
                    /\ reply'.op = "consume" /\ reply'.i = i
                    /\ Contacted(reply'.phases, "C")]_vars

\* A phase-C request made with a cursor past 0-0 brought the cursor back to
\* 0-0.
C9_Witness ==
    /\ IsConsumeReply
    /\ Contacted(reply.phases, "C")
    /\ reply.was.next_id_to_claim > BEGINNING_OF_TIME_ID
    /\ next_id_to_claim[reply.i] = BEGINNING_OF_TIME_ID

ReplayCase(i) ==
    /\ replay[i].on
    /\ Cardinality(replay[i].start) = 2
    /\ config[i].pending_count >= 2

\* C10 as stated: a consumer that only replays, with two pending entries,
\* gets from three consecutive consume calls the two entries tagged Pending,
\* then NotFound, then NotFound again.
C10_ReplayThenNotFoundTwice ==
    \A i \in Instances :
        ReplayCase(i) =>
            LET r == replay[i].replies
            IN /\ Len(r) >= 1 => r[1] = <<"Pending", SortedSeq(replay[i].start)>>
               /\ Len(r) >= 2 => r[2] = <<"NotFound", <<>>>>
               /\ Len(r) >= 3 => r[3] = <<"NotFound", <<>>>>

\* C10 (amended): the third call returns the two entries tagged Pending
\* again, the second call having reset latest_pending_message_id to 0-0.
C10_ReplayNotFoundReplay ==
    \A i \in Instances :
        ReplayCase(i) =>
            LET r == replay[i].replies
            IN /\ Len(r) >= 1 => r[1] = <<"Pending", SortedSeq(replay[i].start)>>
               /\ Len(r) >= 2 => r[2] = <<"NotFound", <<>>>>
               /\ Len(r) >= 3 => r[3] = <<"Pending", SortedSeq(replay[i].start)>>

\* Three consume calls were made in the replay case.
C10_Witness ==
    \E i \in Instances : ReplayCase(i) /\ Len(replay[i].replies) = 3

\* C11: with the group seeded at 0-0 and a consumer with new_count > 0 that
\* keeps calling consume, every entry appended to the stream is eventually
\* returned by a consume call (tagged New, to some consumer of the group).
C11_AtLeastOnce ==
    \A id \in Ids :
        (Created("i2") /\ stream >= id /\ group.exists) ~> (id \in newSeen)

\* Every entry the stream can hold was appended and returned, the last one
\* to the consumer that keeps calling.
C11_Witness ==
    /\ stream = MaxEntries
    /\ newSeen = Ids
    /\ IsConsumeReply /\ reply.kind = "New" /\ reply.i = "i2"
    /\ Last(reply.messages) = MaxEntries

ClaimedBy(i, id) ==
    /\ IsConsumeReply /\ reply.i = i /\ reply.kind = "Claimed"
    /\ id \in Range(reply.messages)

Stalled(id) == Created("i2") /\ ~Created("i1") /\ pel[id].owner = "a"

C13_AckedIsTerminal ==
    /\ IsConsumeReply => Range(reply.messages) \cap acked = {}
    /\ (reply.op = "is_still_mine" /\ reply.id \in acked) => reply.result # "true"
    /\ \A id \in acked : pel[id].owner = NoOwner /\ id <= group.last_delivered

\* After an ack returned true a consume call ran its three phases against the
\* server and found nothing.
C13_Witness ==
    /\ IsConsumeReply
    /\ acked # {}
    /\ reply.phases = [N |-> "empty", P |-> "empty", C |-> "empty"]

\* C14 as stated: an entry of consumer c that a peer has claimed is never
\* owned by c again. Checked for c = "b" when its peer "a" does not read new
\* messages, so that every entry pending for "a" was claimed from "b": no
\* consume of "b" returns an entry that was pending for "a".
C14_ForeignIsTerminal ==
    (IsConsumeReply /\ NameOf(reply.i) = "b" /\ config["i1"].new_count = 0) =>
        \A k \in 1..Len(reply.messages) : reply.previous[k].owner # "a"

\* C14 (amended): an entry pending for a peer becomes pending for consumer c
\* only by a consume of c that returns it tagged Claimed, the entry having
\* been idle for at least c's min_idle_time; until then c does not own it.
C14_ForeignUntilClaimedBack ==
    [][\A i \in Instances : \A id \in Ids :
          (Created(i) /\ pel[id].owner \notin {NoOwner, NameOf(i)}
                      /\ pel'[id].owner = NameOf(i)) =>
              /\ reply'.op = "consume" /\ reply'.i = i /\ reply'.kind = "Claimed"
              /\ id \in Range(reply'.messages)
              /\ pel[id].idle >= config[i].min_idle_time]_vars

\* Consumer "b" claimed back an entry that "a", which reads no new messages,
\* had claimed from it.
C14_Witness ==
    /\ IsConsumeReply
    /\ NameOf(reply.i) = "b"
    /\ config["i1"].new_count = 0
    /\ reply.kind = "Claimed"
    /\ \E k \in 1..Len(reply.messages) :
          reply.previous[k].owner = "a" /\ StillMine("b", reply.messages[k])

\* The entries of a reply, each with the key of its stream, in the order the
\* server sent them.
RECURSIVE Flat(_)
Flat(keys) ==
    IF keys = <<>> THEN <<>>
    ELSE [k \in 1..Len(Head(keys).ids) |-> [key |-> Head(keys).key, id |-> Head(keys).ids[k]]]
         \o Flat(Tail(keys))

OfKey(es, key) == SelectSeq(es, LAMBDA e : e.key = key)

\* C15: unwrap_by_key returns exactly the entries of the reply whose stream
\* is the configured key, in the order of the reply; the entries of any other
\* stream are dropped and the result is a batch, not an error.
C15_OnlyOwnStream ==
    reply.op = "unwrap_by_key" =>
        LET own == OfKey(Flat(reply.read.keys), reply.key)
        IN reply.ids = [k \in 1..Len(own) |-> own[k].id]

\* A reply whose first stream has another key, with entries, and whose second
\* stream has the configured key.
C15_Witness ==
    /\ reply.op = "unwrap_by_key"
    /\ Len(reply.read.keys) = 2
    /\ reply.read.keys[1].key # reply.key /\ reply.read.keys[1].ids # <<>>
    /\ reply.read.keys[2].key = reply.key /\ Len(reply.read.keys[2].ids) = 2
    /\ reply.ids = reply.read.keys[2].ids

NoRequest(ph, x) == ph[x] \in {"skipped", "notrun"}

BootstrapCommands == <<"PING", "EXISTS", "XGROUP CREATE">>
CommandFailed(r, k) ==
    \/ k = 1 /\ r.outcomes.ping # "ok"
    \/ k = 2 /\ (r.outcomes.exists # "ok" \/ stream = 0)
    \/ k = 3 /\ r.outcomes.create # "ok"

\* C17: Consumer::new sends PING, then the existence probe, then the group
\* creation, in that order; it stops at the first command that fails, sends
\* none of the later ones and returns that failure; it returns the consumer
\* only when all three succeeded, so the group exists whenever a constructed
\* consumer can call consume.
C17_BootstrapOrder ==
    /\ reply.op = "new" =>
          /\ reply.issued = SubSeq(BootstrapCommands, 1, Len(reply.issued))
          /\ Len(reply.issued) >= 1
          /\ \A k \in 1..Len(reply.issued) - 1 : ~CommandFailed(reply, k)
          /\ Len(reply.issued) < 3 => CommandFailed(reply, Len(reply.issued))
          /\ reply.result = "Ok" <=> \A k \in 1..3 : ~CommandFailed(reply, k)
          /\ reply.result = "Ok" <=> Created(reply.i)
          /\ reply.result = "Err" <=> reply.error # NoError
    /\ \A i \in Instances : Created(i) => group.exists

\* A construction that stopped at the existence probe although the group
\* creation would have failed too.
C17_Witness ==
    /\ reply.op = "new"
    /\ reply.issued = <<"PING", "EXISTS">>
    /\ reply.outcomes.create # "ok"
    /\ reply.result = "Err"
    /\ ~group.exists

StreamMissingError == [kind |-> "ClientError", message |-> "Stream does not exist"]

\* A step of Consumer::new.
IsNew == reply.op = "none" /\ reply'.op = "new"

\* C18: Consumer::new against a stream that does not exist fails and returns
\* no consumer whatever the round trips do, with the error "Stream does not
\* exist" when the ping and the probe were answered; the server is left as it
\* was: no stream and no group.
C18_MissingStream ==
    [][(IsNew /\ stream = 0) =>
          /\ reply'.result = "Err"
          /\ ~(config'[reply'.i] # NoConfig)
          /\ (reply'.outcomes.ping = "ok" /\ reply'.outcomes.exists = "ok") =>
                /\ reply'.error = StreamMissingError
                /\ reply'.issued = <<"PING", "EXISTS">>
          /\ server' = server
          /\ stream' = 0 /\ ~group'.exists]_vars

\* A construction against the missing stream answered "Stream does not exist".
C18_Witness ==
    /\ reply.op = "new"
    /\ stream = 0
    /\ reply.error = StreamMissingError
    /\ reply.result = "Err"
    /\ reply.outcomes = AllOk

C20_GroupCreateIdempotent ==
    [][(IsNew /\ group.exists) =>
          /\ reply'.outcomes = AllOk =>
                /\ reply'.created = "false"
                /\ reply'.result = "Ok" /\ reply'.error = NoError
                /\ config'[reply'.i] # NoConfig
          /\ reply'.created # "true"
          /\ group' = group /\ pel' = pel /\ stream' = stream]_vars

\* A second consumer constructed into a group that has delivered an entry
\* still pending, with an initial id other than the group's last delivered id.
C20_Witness ==
    /\ reply.op = "new"
    /\ reply.created = "false"
    /\ reply.result = "Ok"
    /\ reply.initial_stream_id # group.last_delivered
    /\ Pending(pel) # {}
    /\ \E i \in Instances : i # reply.i /\ Created(i)

\* C21: a group creation that fails otherwise than by BUSYGROUP makes
\* create_consumer_group return that error, and Consumer::new returns it
\* without a consumer; a creation that was answered never fails.
C21_GroupCreateErrorPropagates ==
    (reply.op = "new" /\ Len(reply.issued) = 3) =>
        /\ reply.outcomes.create # "ok" =>
              /\ reply.result = "Err"
              /\ reply.error = TransportError
              /\ reply.created = "-"
              /\ ~Created(reply.i)
        /\ reply.result = "Err" => reply.outcomes.create # "ok"

\* A construction whose XGROUP CREATE created the group and lost its reply.
C21_Witness ==
    /\ reply.op = "new"
    /\ Len(reply.issued) = 3
    /\ reply.outcomes.create = "lost_reply"
    /\ reply.result = "Err"
    /\ group.exists
    /\ \A i \in Instances : ~Created(i)

\* C22: Producer::new sends PING and nothing else, and writes nothing: it
\* returns a Producer whenever the PING is answered, also before the stream
\* exists, and the stream exists from the first produce that succeeds.
C22_ProducerBootstrap ==
    [][/\ (reply.op = "none" /\ reply'.op = "new_producer") =>
             /\ reply'.issued = <<"PING">>
             /\ server' = server
             /\ reply'.result = "Ok" <=> reply'.outcomes.ping = "ok"
             /\ producer' <=> reply'.result = "Ok"
       /\ (reply.op = "none" /\ reply'.op = "produce" /\ reply'.result = "Ok") =>
             /\ producer
             /\ stream' > 0]_vars

\* A Producer constructed while the stream does not exist.
C22_Witness ==
    /\ reply.op = "new_producer"
    /\ reply.result = "Ok"
    /\ producer
    /\ stream = 0
    /\ ~group.exists

\* A step of produce_from_map or produce_from_items.
IsProduce == reply.op = "none" /\ reply'.op = "produce"
OneAppendRequest(r) ==
    /\ Len(r.requests) = 1
    /\ r.requests[1].command = "XADD" /\ r.requests[1].id = "*"

\* C23 as stated: one XADD with the id "*"; Ok with the id the server
\* assigned and one entry appended, or the error with nothing appended.
C23_FailedProduceAppendsNothing ==
    [][IsProduce =>
          /\ OneAppendRequest(reply')
          /\ reply'.result = "Ok" =>
                (stream' = stream + 1 /\ reply'.id = stream' /\ reply'.error = NoError)
          /\ reply'.result = "Err" =>
                (stream' = stream /\ entries' = entries /\ reply'.error # NoError)]_vars

\* C23: one XADD with the id "*" and no second request; Ok with the id the
\* server assigned and exactly one entry appended, or the error as it came.
\* A produce that failed appended nothing when the server refused the
\* command, and nothing or one entry when the round trip failed: the entry is
\* there when only the reply was lost.
C23_OneAppendRequest ==
    [][IsProduce =>
          /\ OneAppendRequest(reply')
          /\ reply'.result = "Ok" =>
                /\ stream' = stream + 1 /\ reply'.id = stream' /\ reply'.error = NoError
                /\ entries' = [entries EXCEPT ![stream'] = reply'.requests[1].args]
          /\ reply'.result = "Err" =>
                /\ reply'.error # NoError
                /\ reply'.id = BEGINNING_OF_TIME_ID
                /\ stream' \in {stream, stream + 1}
                /\ reply'.error # TransportError => (stream' = stream /\ entries' = entries)
                /\ stream' = stream + 1 =>
                      entries' = [entries EXCEPT ![stream'] = reply'.requests[1].args]
          /\ \A id \in 1..stream : entries'[id] = entries[id]]_vars

\* A produce that returned the error of the transport after the server
\* appended the entry.
C23_Witness ==
    /\ reply.op = "produce"
    /\ reply.result = "Err"
    /\ reply.error = TransportError
    /\ reply.appended = 1
    /\ entries[stream] = reply.requests[1].args

\* The (field, value) pairs of a payload and of the map of a returned
\* StreamId, values compared by the bytes they are written as.
PayloadPairs(p) ==
    IF p.kind = "map" THEN {<<f, WriteRedisArgs(p.map[f])>> : f \in DOMAIN p.map}
    ELSE {<<p.items[k].field, WriteRedisArgs(p.items[k].value)>> : k \in 1..Len(p.items)}
ReturnedPairs(map) == {<<f, map[f].text>> : f \in DOMAIN map}
PayloadFields(p) ==
    IF p.kind = "map" THEN DOMAIN p.map ELSE {p.items[k].field : k \in 1..Len(p.items)}
LastValue(p, f) ==
    IF p.kind = "map" THEN p.map[f]
    ELSE p.items[CHOOSE k \in 1..Len(p.items) :
                    /\ p.items[k].field = f
                    /\ \A j \in k + 1..Len(p.items) : p.items[j].field # f].value

\* The first consume of a fresh group seeded with 0-0, after a produce on the
\* empty stream returned the id 1.
FirstConsume ==
    /\ reply.op = "none" /\ reply'.op = "consume"
    /\ group.exists /\ group.last_delivered = BEGINNING_OF_TIME_ID
    /\ produced[1] # NoPayload

\* C24 as stated: the batch is tagged New, its first entry has the id that
\* produce returned and its pairs are the pairs of m.
C24_RoundTripEqualsPayload ==
    [][FirstConsume =>
          /\ reply'.kind = "New"
          /\ reply'.messages # <<>> /\ reply'.messages[1] = 1
          /\ ReturnedPairs(StreamIdMap(entries[1])) = PayloadPairs(produced[1])]_vars

\* C24: the batch is tagged New and its first entry has the id that produce
\* returned; its map has the fields of m, each with the bytes of the value m
\* gives it, which for a list of items that names a field twice is the value
\* of the last pair of the field.
C24_RoundTripLastPairWins ==
    [][FirstConsume =>
          /\ reply'.kind = "New"
          /\ reply'.messages # <<>> /\ reply'.messages[1] = 1
          /\ LET map == StreamIdMap(entries[1])
                 m == produced[1]
             IN /\ DOMAIN map = PayloadFields(m)
                /\ \A f \in DOMAIN map :
                      map[f] = [type |-> "bulk-string",
                                text |-> WriteRedisArgs(LastValue(m, f))]
                /\ (m.kind = "map" \/ Cardinality(PayloadPairs(m)) = Cardinality(PayloadFields(m)))
                      => ReturnedPairs(map) = PayloadPairs(m)]_vars

\* A first consume that returned the entry produced from two items of one
\* field with different values.
C24_Witness ==
    /\ reply.op = "consume" /\ reply.kind = "New"
    /\ reply.messages = <<1>>
    /\ group.last_delivered = 1
    /\ produced[1].kind = "items"
    /\ Len(produced[1].items) = 2
    /\ produced[1].items[1].field = produced[1].items[2].field
    /\ produced[1].items[1].value.text # produced[1].items[2].value.text

\* Phase x of a consume of instance i ends with this step, without an error.
PhaseDone(i, x) ==
    /\ pc[i] = x /\ pc'[i] # x
    /\ ~(reply'.op = "consume" /\ reply'.kind = "Err")

\* C27: a phase P that contacts the server asks for the consumer's pending
\* entries after latest_pending_message_id, so after the value the phase P
\* before it left there; it leaves the id of the last entry of its batch, or
\* 0-0 when the batch is empty, and phase C of the same call keeps it.
C27_PendingCursor ==
    [][\A i \in Instances :
          /\ (PhaseDone(i, "pending") /\ config[i].pending_count > 0) =>
                LET own == {id \in PelOf(pel, NameOf(i)) : id > latest_pending_message_id[i]}
                    batch == Take(SortedSeq(own), config[i].pending_count)
                IN IF batch # <<>>
                   THEN /\ reply'.op = "consume" /\ reply'.kind = "Pending"
                        /\ reply'.messages = batch
                        /\ latest_pending_message_id'[i] = Last(batch)
                   ELSE /\ pc'[i] = "claim"
                        /\ latest_pending_message_id'[i] = BEGINNING_OF_TIME_ID
          /\ pc[i] = "claim" => latest_pending_message_id'[i] = latest_pending_message_id[i]]_vars

\* A Pending batch read from a cursor that an earlier phase P had advanced.
C27_Witness ==
    /\ reply.op = "consume" /\ reply.kind = "Pending"
    /\ reply.was.latest_pending_message_id > BEGINNING_OF_TIME_ID
    /\ latest_pending_message_id[reply.i] = Last(reply.messages)
    /\ latest_pending_message_id[reply.i] > reply.was.latest_pending_message_id

\* C28: a phase C that contacts the server sends XAUTOCLAIM from
\* next_id_to_claim, so from the value the phase C before it left there, and
\* leaves the id the server returned for the next scan, with a Claimed batch
\* and with NotFound alike.
C28_ClaimCursor ==
    [][\A i \in Instances :
          (PhaseDone(i, "claim") /\ config[i].claim_count > 0) =>
             LET r == XAutoClaim(pel, NameOf(i), config[i].min_idle_time,
                                 next_id_to_claim[i], config[i].claim_count)
             IN /\ reply'.op = "consume" /\ reply'.i = i
                /\ reply'.messages = r.claimed
                /\ reply'.kind = (IF r.claimed # <<>> THEN "Claimed" ELSE "NotFound")
                /\ next_id_to_claim'[i] = r.next_stream_id]_vars

\* A NotFound reply of a phase C that started after an entry and moved the
\* cursor.
C28_Witness ==
    /\ reply.op = "consume" /\ reply.kind = "NotFound"
    /\ reply.phases.C = "empty"
    /\ reply.was.next_id_to_claim > BEGINNING_OF_TIME_ID
    /\ next_id_to_claim[reply.i] # reply.was.next_id_to_claim

\* C29: while an instance lives, latest_pending_message_id changes only in a
\* phase P with pending_count > 0 that follows an empty phase N, and
\* next_id_to_claim only in a phase C with claim_count > 0 that follows empty
\* phases N and P; a consume that returns New, an ack and an is_still_mine
\* leave both as they are.
C29_CursorFrame ==
    [][\A i \in Instances : (Created(i) /\ config'[i] = config[i]) =>
          /\ latest_pending_message_id'[i] # latest_pending_message_id[i] =>
                /\ pc[i] = "pending"
                /\ YieldedEmpty(phases[i], "N")
                /\ config[i].pending_count > 0
          /\ next_id_to_claim'[i] # next_id_to_claim[i] =>
                /\ pc[i] = "claim"
                /\ YieldedEmpty(phases[i], "N") /\ YieldedEmpty(phases[i], "P")
                /\ config[i].claim_count > 0
          /\ (/\ reply.op = "none"
              /\ reply'.op \in {"consume", "ack", "is_still_mine"}
              /\ reply'.i = i
              /\ (reply'.op = "consume" => reply'.kind = "New")) =>
                /\ latest_pending_message_id'[i] = latest_pending_message_id[i]
                /\ next_id_to_claim'[i] = next_id_to_claim[i]]_vars

\* An ack by an instance whose two cursors are past the beginning.
C29_Witness ==
    /\ reply.op = "ack" /\ reply.result = "true"
    /\ latest_pending_message_id[reply.i] > BEGINNING_OF_TIME_ID
    /\ next_id_to_claim[reply.i] > BEGINNING_OF_TIME_ID

PhaseNames == <<"N", "P", "C">>

\* C30: when the request of a phase fails, consume returns the error: the
\* phases after it are not run, the batch is empty, and the cursor of the
\* failed phase, like the other one, has the value it had when the phase
\* began; a consume that returns without an error had no failed phase.
C30_PhaseErrorReturned ==
    reply.op = "consume" =>
        LET ph == reply.phases
            i == reply.i
        IN /\ reply.kind = "Err" <=> \E k \in 1..3 : ph[PhaseNames[k]] = "error"
           /\ reply.kind = "Err" =>
                 /\ reply.messages = <<>>
                 /\ pc[i] = "idle"
                 /\ \A k \in 1..3 : ph[PhaseNames[k]] = "error" =>
                       /\ \A j \in k + 1..3 : ph[PhaseNames[j]] = "notrun"
                       /\ \A j \in 1..k - 1 : YieldedEmpty(ph, PhaseNames[j])
                 /\ ph.P = "error" =>
                       latest_pending_message_id[i] = reply.was.latest_pending_message_id
                 /\ ph.C = "error" => next_id_to_claim[i] = reply.was.next_id_to_claim
                 /\ ph.N = "error" =>
                       /\ latest_pending_message_id[i] = reply.was.latest_pending_message_id
                       /\ next_id_to_claim[i] = reply.was.next_id_to_claim

\* A consume whose XAUTOCLAIM failed while next_id_to_claim was past the
\* beginning.
C30_Witness ==
    /\ reply.op = "consume" /\ reply.kind = "Err"
    /\ reply.phases.C = "error"
    /\ reply.was.next_id_to_claim > BEGINNING_OF_TIME_ID
    /\ next_id_to_claim[reply.i] = reply.was.next_id_to_claim

\* The consume reply that the step into the next state has produced.
IsRedsumerConsume == reply'.op = "redsumer_consume" /\ reply'.result = "Ok"

\* What a consume of c with options o is to return first: the entries after
\* latest_id that were delivered before the call and are c's after it, the
\* first pending_messages_count of them.
OwnUnacknowledged(c, o) ==
    Take(SortedSeq({x \in Ids : /\ x > o.latest_id
                                /\ pel[x].owner # NoOwner
                                /\ pel'[x].owner = c}),
         o.pending_messages_count)

\* What it is to return after them: the entries no consumer of the group has
\* been given, the first new_messages_count of them.
NeverDelivered(o) ==
    LET last == IF group.exists THEN group.last_delivered ELSE o.latest_id
    IN Take(SortedSeq({x \in Ids : last < x /\ x <= stream}), o.new_messages_count)

\* Two consume calls of one consumer, the second directly after the first.
NextConsume ==
    /\ reply.op = "redsumer_consume" /\ reply.result = "Ok"
    /\ IsRedsumerConsume
    /\ reply'.consumer = reply.consumer
    /\ reply'.options = reply.options

\* C25 as stated: an entry a consume has returned, and that was not
\* acknowledged, is returned again by the next consume of the consumer.
C25_ReturnedAgainByNextConsume ==
    [][NextConsume => Range(reply.messages) \subseteq Range(reply'.messages)]_vars

\* C25: every consume of the consumer built from RedsumerConsumerOptions
\* returns the consumer's unacknowledged entries after latest_id, up to
\* pending_messages_count of them, followed by the never-delivered entries,
\* up to new_messages_count of them; no acknowledged entry is returned, and an
\* entry returned and not acknowledged is returned again by the next consume
\* when it is after latest_id and among the first pending_messages_count of
\* the consumer's pending entries.
C25_ConsumeReturnsPendingThenNew ==
    [][/\ IsRedsumerConsume =>
             /\ reply'.messages = OwnUnacknowledged(reply'.consumer, reply'.options)
                                     \o NeverDelivered(reply'.options)
             /\ Range(reply'.messages) \cap acked' = {}
       /\ NextConsume =>
             \A x \in Range(reply.messages) :
                 x \in Range(Take(SortedSeq({y \in Ids : /\ y > reply.options.latest_id
                                                        /\ pel[y].owner = reply.consumer}),
                                  reply.options.pending_messages_count))
                     => x \in Range(reply'.messages)]_vars

\* A consume reading one pending and one new entry at most has returned two
\* entries: a pending entry followed by a new one.
C25_Witness ==
    /\ reply.op = "redsumer_consume" /\ reply.result = "Ok"
    /\ reply.options.pending_messages_count = 1
    /\ reply.options.new_messages_count = 1
    /\ Len(reply.messages) = 2

\* C26: validate_pending_message_ownership(id) of the consumer built from
\* RedsumerConsumerOptions returns Ok(true) exactly when id is pending in the
\* group and owned by this consumer, Ok(false) exactly when it is pending
\* and owned by another consumer, and an error when id is not pending, as
\* it is after its acknowledgement.
C26_PendingMessageOwnership ==
    reply.op = "validate_pending_message_ownership" =>
        LET owner == pel[reply.id].owner
        IN /\ reply.result = "Ok(true)" <=> owner = reply.consumer
           /\ reply.result = "Ok(false)" <=> (owner # NoOwner /\ owner # reply.consumer)
           /\ owner = NoOwner => reply.result = "Err"
           /\ reply.id \in acked => reply.result = "Err"

\* The ownership of an acknowledged entry was asked for while the other
\* entry is pending.
C26_Witness ==
    /\ reply.op = "validate_pending_message_ownership"
    /\ reply.id \in acked
    /\ reply.result = "Err"
    /\ Pending(pel) # {}

\* A consume call has returned an error to its caller.
ConsumeFailed == reply.op = "consume" /\ reply.kind = "Err"

\* C31 as stated: whenever consume returns an error, both cursors have the
\* values they had before the call.
C31_ErrorLeavesCursors ==
    ConsumeFailed => CursorsOf(reply.i) = reply.started

\* C31: whenever consume returns an error, next_id_to_claim has the value it
\* had before the call, and latest_pending_message_id has it too unless the
\* error is that of phase C: phase P has then stored the cursor of its empty
\* batch, BEGINNING_OF_TIME_ID.
C31_ErrorLeavesCursorsButReset ==
    ConsumeFailed =>
        /\ next_id_to_claim[reply.i] = reply.started.next_id_to_claim
        /\ latest_pending_message_id[reply.i] =
               IF reply.phases.C = "error" THEN BEGINNING_OF_TIME_ID
               ELSE reply.started.latest_pending_message_id

\* A consume that began with latest_pending_message_id past the beginning has
\* failed in phase C, after the empty batch of phase P.
C31_Witness ==
    /\ ConsumeFailed
    /\ reply.phases = [N |-> "empty", P |-> "empty", C |-> "error"]
    /\ reply.started.latest_pending_message_id > BEGINNING_OF_TIME_ID
    /\ next_id_to_claim[reply.i] = reply.started.next_id_to_claim

PhasePRuns(i) == pc[i] = "pending" /\ pc'[i] # "pending" /\ config[i].pending_count > 0

\* The step returns ids to an instance of the consumer called name, tagged
\* with one of kinds.
ReturnedTo(name, kinds, ids) ==
    /\ reply'.op = "consume"
    /\ NameOf(reply'.i) = name
    /\ reply'.kind \in kinds
    /\ ids \subseteq Range(reply'.messages)

\* An entry comes to the pending list of a consumer name only in a batch
\* returned to that name tagged New or Claimed, and a batch tagged Pending
\* holds pending entries of the name, none of them acknowledged.
PendingWasGiven ==
    /\ \A x \in Ids, name \in Names :
          (pel'[x].owner = name /\ pel[x].owner # name)
              => ReturnedTo(name, {"New", "Claimed"}, {x})
    /\ (reply'.op = "consume" /\ reply'.kind = "Pending") =>
          /\ Range(reply'.messages) \subseteq PelOf(pel, NameOf(reply'.i))
          /\ Range(reply'.messages) \cap acked' = {}

Increasing(s) == \A k \in 1..Len(s) - 1 : s[k] < s[k + 1]

\* C34: the entries of a returned batch are in increasing order of their
\* ids, and every id of a batch tagged Pending is greater than all the ids
\* the instance was returned tagged Pending since its last empty batch of
\* phase P: no entry is replayed twice before latest_pending_message_id is
\* back at BEGINNING_OF_TIME_ID.
C34_OrderedReplay ==
    [][(reply'.op = "consume" /\ reply' # reply /\ reply'.kind # "Err") =>
          /\ Increasing(reply'.messages)
          /\ reply'.kind = "Pending" =>
                /\ \A x \in Range(reply'.messages), y \in replayed[reply'.i] : x > y
                /\ replayed'[reply'.i] = replayed[reply'.i] \cup Range(reply'.messages)
                /\ latest_pending_message_id'[reply'.i] = Last(reply'.messages)]_vars

\* A second batch tagged Pending was returned to an instance with no empty
\* batch of phase P since the first.
C34_Witness ==
    /\ IsConsumeReply /\ reply.kind = "Pending"
    /\ replayed[reply.i] # Range(reply.messages)
    /\ Range(reply.messages) # {}

\* C35: a second instance under the consumer name of the first is accepted,
\* by construction or as a clone with the configuration and the cursors of
\* the first; the two share the pending list of the name: a batch tagged
\* Pending holds entries pending for the name, whichever instance they were
\* returned to before, and is_still_mine answers true to either instance for
\* every entry pending for the name.
C35_SameNameSharesPendingList ==
    /\ reply.op = "new" => (reply.result = "Ok" <=> stream > 0)
    /\ reply.op = "clone" =>
          /\ config[reply.i] = config[reply.of]
          /\ CursorsOf(reply.i) = CursorsOf(reply.of)
    /\ (reply.op = "consume" /\ reply.kind = "Pending") =>
          Range(reply.messages) \subseteq PelOf(pel, NameOf(reply.i))
    /\ reply.op = "is_still_mine" =>
          (reply.result = "true" <=>
              \E j \in Instances : Created(j) /\ pel[reply.id].owner = NameOf(j))

\* An entry returned tagged New to instance i1 was returned tagged Pending to
\* instance i2, which reads no new messages, and is_still_mine then answers
\* true to i1 for this entry, not acknowledged and pending for their name.
C35_Witness ==
    /\ Created("i1") /\ Created("i2")
    /\ NameOf("i1") = NameOf("i2")
    /\ config["i2"].new_count = 0
    /\ reply.op = "is_still_mine" /\ reply.i = "i1" /\ reply.result = "true"
    /\ reply.id \in newSeen
    /\ reply.id \in replayed["i2"]
    /\ reply.id \notin acked
    /\ pel[reply.id].owner = NameOf("i2")

RECURSIVE FloorLog2(_)
FloorLog2(n) == IF n <= 1 THEN 0 ELSE 1 + FloorLog2(n \div 2)

Validating == wait.pc # "idle" /\ wait.loop = "validate_stream_existence"

\* What holds of the loop of validate_stream_existence at every moment.
ValidateBounds ==
    Validating =>
        /\ wait.probes = wait.step + (IF wait.pc = "probe" THEN 0 ELSE 1)
        /\ wait.step <= 8
        /\ wait.pc = "sleep" => wait.wait_time = Pow2(wait.step)
        /\ wait.pc = "sleep" => wait.wait_time <= wait.max_wait
        /\ wait.slept <= wait.max_wait
        /\ (wait.pc = "done" /\ wait.result = "Ok") => stream > 0
        /\ (wait.pc = "done" /\ wait.error = StreamWasNotFound) =>
              /\ Pow2(wait.step) > wait.max_wait
              /\ wait.step > 0 => Pow2(wait.step - 1) <= wait.max_wait
        /\ wait.probes <= (IF wait.max_wait = 0 THEN 1 ELSE FloorLog2(wait.max_wait) + 2)

\* C36: validate_stream_existence waits 2^step seconds after its failed probe
\* number step, never longer than max_wait_seconds_for_stream at once,
\* returns Ok when a probe finds the stream and "Stream was not found" at the
\* first failed probe whose wait 2^step would exceed the maximum, after at
\* most floor(log2(max_wait_seconds_for_stream)) + 2 probes (one probe when
\* the maximum is 0), and it always comes to an end.
C36_BackoffTerminates ==
    /\ []ValidateBounds
    /\ (Validating /\ wait.pc = "probe") ~> (Validating /\ wait.pc = "done")

\* The stream never appeared for a consumer that waits 255 seconds at most:
\* the ninth probe returned the error, after sleeps of 1 to 128 seconds.
C36_Witness ==
    /\ Validating /\ wait.pc = "done"
    /\ wait.error = StreamWasNotFound
    /\ wait.max_wait = 255
    /\ wait.probes = FloorLog2(wait.max_wait) + 2
    /\ wait.slept = 128
    /\ stream = 0

\* The consumer names to which is_still_mine(id) would answer true now.
MineOf(id) == {name \in Names : is_still_mine(pel, name, id, "ok") = "true"}

\* C37: at every moment is_still_mine(id) is true for one consumer name of
\* the group at most; it is true for exactly one name while the entry has
\* been delivered and not acknowledged, and for none once it is acknowledged
\* or before it is delivered.
C37_AtMostOneOwner ==
    \A id \in Ids :
        /\ Cardinality(MineOf(id)) <= 1
        /\ id \in newSeen \ acked => Cardinality(MineOf(id)) = 1
        /\ id \in acked => MineOf(id) = {}
        /\ id \notin newSeen => MineOf(id) = {}
        /\ (reply.op = "is_still_mine" /\ reply.id = id /\ reply.result = "true")
              => MineOf(id) = {NameOf(reply.i)}

\* Every entry was delivered, is_still_mine has answered true to a consumer,
\* and the other consumer holds an entry as well.
C37_Witness ==
    /\ reply.op = "is_still_mine" /\ reply.result = "true"
    /\ \E x \in Ids : pel[x].owner \notin {NoOwner, NameOf(reply.i)}
    /\ Created("i1") /\ Created("i2")
    /\ newSeen = Ids

\* C38: ack(id) removes the entry from the pending list of the group
\* whichever consumer holds it: it returns true exactly when the entry was
\* pending, for the caller or for another consumer, and after it
\* is_still_mine(id) is false for every consumer, the former owner included.
C38_AckIsGroupWide ==
    reply.op = "ack" =>
        /\ reply.result = "true" <=> reply.owner # NoOwner
        /\ reply.result = "true" =>
              /\ pel[reply.id].owner = NoOwner
              /\ \A name \in Names : is_still_mine(pel, name, reply.id, "ok") = "false"

\* Consumer "a" acknowledged an entry that was pending for consumer "b".
C38_Witness ==
    /\ reply.op = "ack" /\ reply.result = "true"
    /\ NameOf(reply.i) = "a"
    /\ reply.owner = "b"
    /\ reply.id \in acked

WaitingForStream == wait.pc # "idle" /\ wait.loop = "wait_for_stream"

\* C39: for every max_wait_seconds_for_stream in 0..255, wait_for_stream on
\* a stream that does not appear never overflows its 8-bit step and
\* wait_time, and the only way it ends, its requests succeeding, is the
\* panic "Stream ... was not found".
C39_NoOverflowBeforeNotFound ==
    WaitingForStream =>
        /\ ~wait.overflowed
        /\ (wait.pc = "done" /\ stream = 0 /\ wait.error # TransportError)
              => wait.error = StreamNotFoundPanic

\* With a maximum of 254 seconds the loop ended with "Stream ... was not
\* found" at step 51, where wait_time is 255, the last value without overflow.
C39_Witness ==
    /\ WaitingForStream /\ wait.pc = "done"
    /\ wait.error = StreamNotFoundPanic
    /\ wait.max_wait = 254
    /\ wait.step = 51 /\ wait.wait_time = 255
    /\ ~wait.overflowed

====
